---- MODULE Spec2Model ----
(***************************************************************************)
(* The link-fetching pipeline of scripts/fetch_youtube_links.py and        *)
(* scripts/fetch_youtube_links_2.py: main() as a sequential program that   *)
(* is invoked again and again on the same metadata.json, with the store    *)
(* file (youtube-links.json / youtube-links-2.json) as the only state that *)
(* survives an invocation.                                                 *)
(*                                                                         *)
(* Strings that the code takes apart (artist, track name, key) are         *)
(* sequences of one-character strings; the empty string is <<>>.  An       *)
(* Optional value is <<>> (None) or <<v>>.  A dict is the sequence of its  *)
(* items in insertion order, which is also the order json.dump writes and  *)
(* json.load restores.                                                     *)
(*                                                                         *)
(* Not modelled: the text printed, the git commit/push that follows a      *)
(* save, the sleeps, and the counters that only feed messages (new_links,  *)
(* batch_count, fixed, retry_batch, existing_entries, remaining_new).      *)
(*                                                                         *)
(* Beside main() the module has three more machines, each with its own     *)
(* variables and its own specification: one call of fetch_collection,      *)
(* download_album_art or search_youtube with its retry loop (CallSpec),    *)
(* one run of scrape_collections of 246_scrape/scrape_24six_metadata.py    *)
(* with its concurrent tasks, its saves and its interruption (ScrapeSpec), *)
(* and the key of one track, built and split again (KeySpec).  In a        *)
(* specification the variables of the other machines keep their initial    *)
(* values.  BatchSpec is main() with BATCH_SIZE set to any value up to the *)
(* bound.                                                                  *)
(***************************************************************************)
EXTENDS Integers, Sequences, FiniteSets, TLC

\* ------------------------------------------------------------------------
\* Bounds.  The three configuration values keep the names of the source and
\* are scaled down (source: 10000 / 2000 / 1000 and 6000 / 2000 / 3000); the
\* retry budget stays below the run cap, and the batch size is above one, so
\* that a run has searches that no batch save has written yet.
\* ------------------------------------------------------------------------
MAX_TRACKS_PER_RUN == 3
MAX_NULL_RETRIES_PER_RUN == 2
BATCH_SIZE == 2
\* Longest metadata document, in albums.
MaxAlbums == 2
\* Longest artist and longest track name, in characters, where a key is
\* looked at on its own.
MaxNameLen == 2

\* Longest track name and longest video title, in words; most words that
\* follow the first one in a track name of many different words.
MaxTrackWords == 2
MaxTitleWords == 3
MaxFillers == 4

\* The name similarity is a multiple of 1/SimSteps; most known albums and
\* tracks of an artist; most artists and most candidates of an artist.
SimSteps == 20
MaxKnownAlbums == 1
MaxKnownTracks == 21
MaxArtists == 2
MaxCandidates == 2

VARIABLES
    input,          \* metadata.json: "ok", "missing" or "unparsable"
    metadata,       \* the parsed metadata.json: a sequence of albums
    variant,        \* 1: fetch_youtube_links.py, 2: fetch_youtube_links_2.py
    batch_every,    \* the value that the script gives BATCH_SIZE
    disk,           \* the store file
    pc,             \* position of main()
    ret,            \* where main() continues after the save in progress
    youtube_links,  \* the in-memory store
    loaded,         \* the store as main() loaded it (history)
    total_tracks,
    processed,
    idx,            \* position of pass 1 in the enumeration of the work items
    null_keys,
    to_retry,
    retried,
    removed,
    capped,         \* main() took the cap branch (history)
    exit_code,      \* the exit status of the last invocation, None while it runs
    searches        \* the search_youtube calls of this run, in order (history):
                    \* the pass, the artist and track searched for, written
                    \* as a key, and whether a video id came back

mainvars == <<input, metadata, variant, batch_every, disk, pc, ret, youtube_links, loaded,
              total_tracks, processed, idx, null_keys, to_retry, retried, removed,
              capped, exit_code, searches>>

\* One call of fetch_collection, download_album_art or search_youtube.
VARIABLES
    fn,             \* the function called ("none": no call is modelled)
    max_retries,    \* the attempt budget: max_retries, or attempts in search_youtube
    widen_on_retry,
    attempt,        \* the loop variable of `for attempt in range(...)`
    last_error,
    cpc,            \* position of the call
    requests,       \* what each request of the call came back with (history)
    results_counts, \* the results argument of each _yt_search call (history)
    sleeps,         \* the backoff sleeps (history): the delay in milliseconds,
                    \* without jitter, and the number, from 1, of the request
                    \* that it comes before
    result          \* the status (scraper) or the Optional video id (search) returned

callvars == <<fn, max_retries, widen_on_retry, attempt, last_error, cpc, requests,
              results_counts, sleeps, result>>

\* One run of scrape_collections.
VARIABLES
    start_id, end_id, concurrency, batch_size, download_art,
    batch_start,        \* the loop variable of the batch loop
    spc,                \* position of scrape_collections
    task,               \* fetch_and_process(collection_id): its position, the
                        \* attempt of the request in flight, its metadata and
                        \* art_result
    sem,                \* the value of the semaphore
    lock,               \* the task that holds the lock, or 0
    running,            \* the task that runs between two suspension points, or 0
    all_metadata,
    counters,
    download_counters,
    last_save_time,     \* 0: no timed save yet
    json_file,          \* the output JSON file
    json_temp,          \* the file at json_file + '.tmp'
    save_pc,            \* position of save_results, "none" outside of it
    completed           \* the ids in the order fetch_collection returned (history)

scrapevars == <<start_id, end_id, concurrency, batch_size, download_art, batch_start,
                spc, task, sem, lock, running, all_metadata, counters,
                download_counters, last_save_time, json_file, json_temp, save_pc,
                completed>>

\* The key of one (artist, track name) pair, built and taken apart again.
VARIABLES
    key_in,             \* the artist and the track name the key is built from
    key_other,          \* the artist and the track name of another track
    key_out,            \* the two keys, None before they are built
    key_split,          \* what key.split('|', 1) gives for the first key
    kpc

keyvars == <<key_in, key_other, key_out, key_split, kpc>>

\* One call of validate_match: the number of the variant (1:
\* fetch_youtube_links.py, 2: fetch_youtube_links_2.py), the arguments
\* artist, track_name, video_title and video_channel, the verdict (None
\* before the call returns, then what it returned) and the place of the call.
VARIABLES
    match

\* One candidate of the artist-ID fetcher, validated and scored: sim is
\* calculate_similarity(artist_name, channelName) in steps of 1/SimSteps,
\* known how many albums and tracks the discography has, similar how many of
\* the known albums have an upload that is similar enough, and how many of
\* the first 20 tracks, disco what validate_discography_match returned,
\* confidence what calculate_confidence returned.
VARIABLES
    conf

\* main() of the artist-ID fetcher: n_artists is len(artist_discography),
\* returned what process_artist returned, artist by artist (history),
\* found_count, skipped_count, results_simple and results_detailed the
\* locals of main(), output_simple and output_detailed the files
\* artists_verified.json and artists_verified_detailed.json, None until
\* they are written.
VARIABLES
    ids

vars == <<mainvars, callvars, scrapevars, keyvars, match, conf, ids>>

\* ------------------------------------------------------------------------
\* Values
\* ------------------------------------------------------------------------
None == <<>>

Some(v) == <<v>>

\* What search_youtube returns: None or a video id.
VideoIds == {"v1", "v2"}

SearchOutcomes == {None} \cup {Some(v) : v \in VideoIds}

\* Albums the documents are built from: two ordinary albums, an album that
\* repeats a track of another one, an album without artist, an album with a
\* track without name.
AlbumList ==
    << [artist |-> <<"a">>, title |-> "T1", tracks |-> << <<"x">>, <<"y">> >>],
       [artist |-> <<"b">>, title |-> "T2", tracks |-> << <<"x">>, <<"y">> >>],
       [artist |-> <<"a">>, title |-> "T3", tracks |-> << <<"x">> >>],
       [artist |-> <<>>,    title |-> "T4", tracks |-> << <<"x">> >>],
       [artist |-> <<"c">>, title |-> "T5", tracks |-> << <<>>, <<"z">> >>] >>

\* The albums of AlbumList at the positions S, from position i on.
RECURSIVE SubList(_, _)
SubList(S, i) ==
    IF i > Len(AlbumList) THEN <<>>
    ELSE (IF i \in S THEN <<AlbumList[i]>> ELSE <<>>) \o SubList(S, i + 1)

\* The documents: the sub-lists of AlbumList with up to MaxAlbums albums.
Documents ==
    {SubList(S, 1) : S \in {T \in SUBSET (1..Len(AlbumList)) : Cardinality(T) <= MaxAlbums}}

\* ------------------------------------------------------------------------
\* dict operations (insertion-ordered)
\* ------------------------------------------------------------------------
\* A membership test that only sees the keys mapped to None.
HasAsNull(store, k) == \E i \in 1..Len(store) : store[i].key = k /\ store[i].val = None

\* key in store
Has(store, k) == \E i \in 1..Len(store) : store[i].key = k

Get(store, k) == store[CHOOSE i \in 1..Len(store) : store[i].key = k].val

\* store[k] = v: an existing key keeps its place, a new key goes last.
Put(store, k, v) ==
    IF Has(store, k)
    THEN [i \in 1..Len(store) |->
            IF store[i].key = k THEN [key |-> k, val |-> v] ELSE store[i]]
    ELSE Append(store, [key |-> k, val |-> v])

KeysOf(store) == {store[i].key : i \in 1..Len(store)}

\* ------------------------------------------------------------------------
\* Helpers of main()
\* ------------------------------------------------------------------------
\* key = f"{artist}|{track_name}"
Key(artist, track_name) == artist \o <<"|">> \o track_name

\* key.split('|', 1)
FirstBar(key) ==
    CHOOSE i \in 1..Len(key) : key[i] = "|" /\ \A j \in 1..(i - 1) : key[j] # "|"

SplitArtist(key) == SubSeq(key, 1, FirstBar(key) - 1)

SplitTrack(key) == SubSeq(key, FirstBar(key) + 1, Len(key))

Url(video_id) == "https://www.youtube.com/watch?v=" \o video_id

Record(artist, track_name, album_title, video_id) ==
    [artist |-> artist, track |-> track_name, album |-> album_title,
     video_id |-> video_id, url |-> Url(video_id)]

\* The value stored for a search outcome: the record, or None.
Entry(artist, track_name, album_title, outcome) ==
    IF outcome = None THEN None
    ELSE Some(Record(artist, track_name, album_title, outcome[1]))

RECURSIVE get_album_title(_, _, _)
get_album_title(md, artist, track_name) ==
    IF md = <<>> THEN ""
    ELSE IF Head(md).artist = artist
            /\ \E t \in 1..Len(Head(md).tracks) : Head(md).tracks[t] = track_name
         THEN Head(md).title
         ELSE get_album_title(Tail(md), artist, track_name)

\* total_tracks = sum(len(album.get('tracks', [])) for album in metadata)
RECURSIVE TotalTracks(_)
TotalTracks(md) ==
    IF md = <<>> THEN 0 ELSE Len(Head(md).tracks) + TotalTracks(Tail(md))

\* The (album, track) pairs that the two loops of pass 1 reach, in their
\* order: albums without artist or without tracks and tracks without name
\* are passed over.
RECURSIVE TrackItems(_, _)
TrackItems(album, tracks) ==
    IF tracks = <<>> THEN <<>>
    ELSE (IF Head(tracks) = <<>> THEN <<>>
          ELSE << [artist |-> album.artist, album |-> album.title,
                   track |-> Head(tracks)] >>)
         \o TrackItems(album, Tail(tracks))

\* An enumeration that starts at the last album.
RECURSIVE WorkItemsLastFirst(_)
WorkItemsLastFirst(md) ==
    IF md = <<>> THEN <<>>
    ELSE WorkItemsLastFirst(Tail(md))
         \o (IF Head(md).artist = <<>> \/ Head(md).tracks = <<>> THEN <<>>
             ELSE TrackItems(Head(md), Head(md).tracks))

RECURSIVE WorkItems(_)
WorkItems(md) ==
    IF md = <<>> THEN <<>>
    ELSE (IF Head(md).artist = <<>> \/ Head(md).tracks = <<>> THEN <<>>
          ELSE TrackItems(Head(md), Head(md).tracks))
         \o WorkItems(Tail(md))

\* A key built from the album title instead of the track name.
ItemKeyByAlbum(item) == Key(item.artist, <<item.album>>)

ItemKey(item) == Key(item.artist, item.track)

\* The keys of the work domain.
DomainKeys(md) == {ItemKey(WorkItems(md)[i]) : i \in 1..Len(WorkItems(md))}

IsNull(item) == item.val = None

IsResolved(item) == item.val # None

\* A list of the null keys that names each of them twice.
RECURSIVE NullKeysTwice(_)
NullKeysTwice(store) ==
    IF store = <<>> THEN <<>>
    ELSE (IF IsNull(Head(store)) THEN <<Head(store).key, Head(store).key>> ELSE <<>>)
         \o NullKeysTwice(Tail(store))

\* null_keys = [k for k, v in youtube_links.items() if v is None]
RECURSIVE NullKeys(_)
NullKeys(store) ==
    IF store = <<>> THEN <<>>
    ELSE (IF IsNull(Head(store)) THEN <<Head(store).key>> ELSE <<>>)
         \o NullKeys(Tail(store))

\* Faulty purges: one that deletes nothing, one that deletes every entry, one
\* that stops after the first None entry.
cleanup_nothing(store) == store

RECURSIVE cleanup_first_null(_)
cleanup_first_null(store) ==
    IF store = <<>> THEN <<>>
    ELSE IF IsNull(Head(store)) THEN Tail(store)
         ELSE <<Head(store)>> \o cleanup_first_null(Tail(store))

cleanup_everything(store) == <<>>

\* cleanup_nulls: the store without its None entries.
RECURSIVE cleanup_nulls(_)
cleanup_nulls(store) ==
    IF store = <<>> THEN <<>>
    ELSE (IF IsNull(Head(store)) THEN <<>> ELSE <<Head(store)>>)
         \o cleanup_nulls(Tail(store))

\* A cap test that is off by one.
CapExceeded(n) == n > MAX_TRACKS_PER_RUN

\* if processed >= MAX_TRACKS_PER_RUN
CapReached(n) == n >= MAX_TRACKS_PER_RUN

\* A retry pass without the size test.
RetryAlways(store, total) == TRUE

\* if len(youtube_links) >= total_tracks
RetryEligible(store, total) == Len(store) >= total

Min(a, b) == IF a <= b THEN a ELSE b

Max(a, b) == IF a >= b THEN a ELSE b

\* A retry count that leaves MAX_NULL_RETRIES_PER_RUN out.
ToRetryRunBudgetOnly(nulls, done) ==
    Min(Len(nulls), Max(0, MAX_TRACKS_PER_RUN - done))

\* remaining_budget = max(0, MAX_TRACKS_PER_RUN - processed)
\* to_retry = min(len(null_keys), remaining_budget, MAX_NULL_RETRIES_PER_RUN)
ToRetry(nulls, done) ==
    Min(Min(Len(nulls), Max(0, MAX_TRACKS_PER_RUN - done)), MAX_NULL_RETRIES_PER_RUN)

\* ------------------------------------------------------------------------
\* The store file
\* ------------------------------------------------------------------------
Absent == [kind |-> "absent", store |-> <<>>]

\* open(..., 'w') has truncated the file and json.dump has not finished: what
\* is on disk is a proper prefix of a JSON object, which does not parse.
Partial == [kind |-> "partial", store |-> <<>>]

Complete(store) == [kind |-> "complete", store |-> store]

\* The load at the start of main(): no file, or a file that does not parse,
\* gives the empty store.
Load(file) == IF file.kind = "complete" THEN file.store ELSE <<>>

\* A load without an except clause.
LoadExceptsNothing == {}

\* except Exception around the load: the failures of open() and json.load()
\* that it catches.
LoadExcepts == {"parse_error"}

\* The exception of the load that leaves main(), or "none".
LoadFailure(file) ==
    IF file.kind = "partial" /\ "parse_error" \notin LoadExcepts
    THEN "parse_error" ELSE "none"

\* What may be found where metadata.json is looked for.
Inputs == {"ok", "missing", "unparsable"}

\* A setup failure that reports success.
SetupExitZero == <<0>>

\* sys.exit(1)
SetupExit == <<1>>

\* main() has returned and the interpreter ends.
ReturnExit == <<0>>

\* An exception that nothing catches ends the interpreter with a traceback.
TracebackExit == <<1>>

\* The process ends on SIGINT (KeyboardInterrupt) or SIGTERM.
SignalExits == {<<130>>, <<143>>}

\* ------------------------------------------------------------------------
\* Values and helpers of the collection scraper
\* ------------------------------------------------------------------------
\* Largest collection id, largest concurrency.
MaxId == 2
MaxConcurrency == 2

\* The attempt budgets the scraper is run with.
ScrapeRetries == {1, 2}

Ids == 1..MaxId

\* What the last line of a response handler makes of a request.
FetchOutcomes == {"success_image", "success", "404", "client_error", "retryable"}

ArtOutcomes == {"success", "client_error", "retryable"}

\* The dict that fetch_collection returns, as far as the scraper reads it.
Metadata(id, outcome) ==
    [collection_id |-> id,
     status |-> CASE outcome \in {"success_image", "success"} -> "success"
                  [] outcome = "404" -> "404"
                  [] OTHER -> "error",
     image_url |-> outcome = "success_image",
     album_art_file |-> FALSE]

NoTask == [pc |-> "none", attempt |-> 0, metadata |-> None, art |-> ""]

\* A semaphore that never blocks.
SemAlways(value) == TRUE

\* asyncio.Semaphore.acquire returns when the value is positive.
SemAvailable(value) == value > 0

\* A semaphore that is not given back.
SemKept(value) == value

\* The end of `async with semaphore`: asyncio.Semaphore.release.
SemRelease(value) == value + 1

\* A result list that grows at its front.
ListPrepend(list, m) == <<m>> \o list

\* all_metadata.append(metadata)
ListAppend(list, m) == Append(list, m)

\* A tally of the successes only.
TallySuccesses(tally, status) ==
    IF status = "success" THEN [tally EXCEPT !.success = @ + 1] ELSE tally

\* process_and_save, the counter of the status: success, 404, anything else.
Tally(tally, status) ==
    CASE status = "success" -> [tally EXCEPT !.success = @ + 1]
      [] status = "404" -> [tally EXCEPT !.not_found = @ + 1]
      [] OTHER -> [tally EXCEPT !.error = @ + 1]

\* A batch that reaches one id into the next one.
BatchEndInclusive == Min(batch_start + batch_size, end_id)

\* batch_end = min(batch_start + batch_size - 1, end_id)
BatchEnd == Min(batch_start + batch_size - 1, end_id)

Batch == batch_start..BatchEnd

\* A filter that lets every outcome through.
Unfiltered(list) == list

\* successful_items = [m for m in metadata_list if m.get('status') == 'success']
RECURSIVE Successful(_)
Successful(list) ==
    IF list = <<>> THEN <<>>
    ELSE (IF Head(list).status = "success" THEN <<Head(list)>> ELSE <<>>)
         \o Successful(Tail(list))

\* successful_items.sort(key=lambda x: x.get('collection_id', 0))
RECURSIVE InsertById(_, _)
InsertById(sorted, m) ==
    IF sorted = <<>> THEN <<m>>
    ELSE IF m.collection_id < Head(sorted).collection_id THEN <<m>> \o sorted
         ELSE <<Head(sorted)>> \o InsertById(Tail(sorted), m)

RECURSIVE SortById(_)
SortById(list) ==
    IF list = <<>> THEN <<>>
    ELSE InsertById(SortById(SubSeq(list, 1, Len(list) - 1)), list[Len(list)])

\* save_results: the JSON file after the save.
save_results(list) == Complete(SortById(Successful(list)))

\* The output file of an earlier run, over another range of ids.
PriorFile == save_results(<<Metadata(0, "success")>>)

\* args.output
OutputFile == <<"metadata.json">>

\* A temporary path that is the target path itself.
json_temp_in_place(path) == path

\* json_temp = json_file + '.tmp'
json_temp_path(path) == path \o <<".tmp">>

\* No scrape is modelled: its variables keep these values.
NoScrape ==
    /\ start_id = 1
    /\ end_id = 0
    /\ concurrency = 1
    /\ batch_size = 1
    /\ download_art = FALSE
    /\ batch_start = 1
    /\ spc = "none"
    /\ task = [t \in Ids |-> NoTask]
    /\ sem = 0
    /\ lock = 0
    /\ running = 0
    /\ all_metadata = <<>>
    /\ counters = [success |-> 0, not_found |-> 0, error |-> 0]
    /\ download_counters = [success |-> 0, error |-> 0]
    /\ last_save_time = 0
    /\ json_file = Absent
    /\ json_temp = Absent
    /\ save_pc = "none"
    /\ completed = <<>>

\* No key is modelled on its own.
NoKey ==
    /\ key_in = <<>>
    /\ key_other = <<>>
    /\ key_out = <<>>
    /\ key_split = <<>>
    /\ kpc = "none"

\* No call is modelled: the variables of the call keep these values.
NoCall ==
    /\ fn = "none"
    /\ max_retries = 0
    /\ widen_on_retry = FALSE
    /\ attempt = 0
    /\ last_error = <<"None">>
    /\ cpc = "returned"
    /\ requests = <<>>
    /\ results_counts = <<>>
    /\ sleeps = <<>>
    /\ result = <<>>

\* ------------------------------------------------------------------------
\* Initial state: no invocation yet, no store file.
\* ------------------------------------------------------------------------
Stopped == {"idle", "done", "killed", "failed"}

Init ==
    /\ ids = <<>>
    /\ conf = <<>>
    /\ match = <<>>
    /\ input \in Inputs
    /\ metadata \in (IF input = "ok" THEN Documents ELSE {<<>>})
    /\ variant \in {1, 2}
    /\ batch_every = BATCH_SIZE
    /\ disk = Absent
    /\ pc = "idle"
    /\ ret = "none"
    /\ youtube_links = <<>>
    /\ loaded = <<>>
    /\ total_tracks = 0
    /\ processed = 0
    /\ idx = 1
    /\ null_keys = <<>>
    /\ to_retry = 0
    /\ retried = 0
    /\ removed = 0
    /\ capped = FALSE
    /\ exit_code = None
    /\ searches = <<>>
    /\ NoCall
    /\ NoScrape
    /\ NoKey

\* ------------------------------------------------------------------------
\* main()
\* ------------------------------------------------------------------------
\* A new invocation.  Without a metadata.json that parses main() ends at
\* once with sys.exit(1); else it loads the store, counts the tracks and
\* resets the counters.
StartRun ==
    /\ pc \in Stopped
    /\ IF input # "ok"
       THEN /\ pc' = "failed"
            /\ exit_code' = SetupExit
            /\ youtube_links' = <<>>
            /\ loaded' = <<>>
            /\ total_tracks' = 0
       ELSE IF LoadFailure(disk) # "none"
       THEN /\ pc' = "failed"
            /\ exit_code' = TracebackExit
            /\ youtube_links' = <<>>
            /\ loaded' = <<>>
            /\ total_tracks' = 0
       ELSE /\ pc' = "pass1"
            /\ exit_code' = None
            /\ youtube_links' = Load(disk)
            /\ loaded' = Load(disk)
            /\ total_tracks' = TotalTracks(metadata)
    /\ processed' = 0
    /\ idx' = 1
    /\ null_keys' = <<>>
    /\ to_retry' = 0
    /\ retried' = 0
    /\ removed' = 0
    /\ capped' = FALSE
    /\ searches' = <<>>
    /\ ret' = "none"
    /\ UNCHANGED <<input, metadata, variant, batch_every, disk>>
    /\ UNCHANGED <<callvars, scrapevars, keyvars, match, conf, ids>>

\* Pass 1, a key that is already in the store (resolved or null): continue.
Pass1Skip ==
    /\ pc = "pass1"
    /\ idx <= Len(WorkItems(metadata))
    /\ Has(youtube_links, ItemKey(WorkItems(metadata)[idx]))
    /\ idx' = idx + 1
    /\ UNCHANGED <<input, metadata, variant, batch_every, disk, pc, ret, youtube_links, loaded,
                   total_tracks, processed, null_keys, to_retry, retried,
                   removed, capped, searches>>
    /\ UNCHANGED exit_code
    /\ UNCHANGED <<callvars, scrapevars, keyvars, match, conf, ids>>

\* Pass 1, a new key with the run cap reached: save, then purge, then leave.
Pass1Cap ==
    /\ pc = "pass1"
    /\ idx <= Len(WorkItems(metadata))
    /\ ~Has(youtube_links, ItemKey(WorkItems(metadata)[idx]))
    /\ CapReached(processed)
    /\ capped' = TRUE
    /\ pc' = "save"
    /\ ret' = "cap_cleanup"
    /\ UNCHANGED <<input, metadata, variant, batch_every, disk, youtube_links, loaded, total_tracks,
                   processed, idx, null_keys, to_retry, retried, removed, searches>>
    /\ UNCHANGED exit_code
    /\ UNCHANGED <<callvars, scrapevars, keyvars, match, conf, ids>>

\* Pass 1, a new key: search it, store the record or None, save every
\* BATCH_SIZE searches.
Pass1Search ==
    /\ pc = "pass1"
    /\ idx <= Len(WorkItems(metadata))
    /\ LET item == WorkItems(metadata)[idx]
           key == ItemKey(item)
       IN /\ ~Has(youtube_links, key)
          /\ ~CapReached(processed)
          /\ \E outcome \in SearchOutcomes :
                /\ youtube_links' =
                      Put(youtube_links, key,
                          Entry(item.artist, item.track, item.album, outcome))
                /\ searches' =
                      Append(searches, [pass |-> 1,
                                        key |-> Key(item.artist, item.track),
                                        found |-> outcome # None])
    /\ processed' = processed + 1
    /\ idx' = idx + 1
    /\ IF (processed + 1) % batch_every = 0
       THEN pc' = "save" /\ ret' = "pass1"
       ELSE UNCHANGED <<pc, ret>>
    /\ UNCHANGED <<input, metadata, variant, batch_every, disk, loaded, total_tracks, null_keys,
                   to_retry, retried, removed, capped>>
    /\ UNCHANGED exit_code
    /\ UNCHANGED <<callvars, scrapevars, keyvars, match, conf, ids>>

\* The loops of pass 1 are over: commit if anything was searched.
Pass1End ==
    /\ pc = "pass1"
    /\ idx > Len(WorkItems(metadata))
    /\ IF processed > 0
       THEN pc' = "save" /\ ret' = "pass2_select"
       ELSE pc' = "pass2_select" /\ UNCHANGED ret
    /\ UNCHANGED <<input, metadata, variant, batch_every, disk, youtube_links, loaded, total_tracks,
                   processed, idx, null_keys, to_retry, retried, removed,
                   capped, searches>>
    /\ UNCHANGED exit_code
    /\ UNCHANGED <<callvars, scrapevars, keyvars, match, conf, ids>>

\* The head of pass 2: collect the null keys and decide whether to retry.
Pass2Select ==
    /\ pc = "pass2_select"
    /\ null_keys' = NullKeys(youtube_links)
    /\ IF NullKeys(youtube_links) # <<>> /\ RetryEligible(youtube_links, total_tracks)
       THEN /\ to_retry' = ToRetry(NullKeys(youtube_links), processed)
            /\ pc' = IF ToRetry(NullKeys(youtube_links), processed) > 0
                     THEN "pass2" ELSE "cleanup"
       ELSE /\ to_retry' = 0
            /\ pc' = "cleanup"
    /\ retried' = 0
    /\ UNCHANGED <<input, metadata, variant, batch_every, disk, ret, youtube_links, loaded,
                   total_tracks, processed, idx, removed, capped, searches>>
    /\ UNCHANGED exit_code
    /\ UNCHANGED <<callvars, scrapevars, keyvars, match, conf, ids>>

\* Pass 2, one key of null_keys[:to_retry]: search it again and store the
\* record if there is one; the first variant saves every BATCH_SIZE retries.
Pass2Retry ==
    /\ pc = "pass2"
    /\ retried < to_retry
    /\ LET key == null_keys[retried + 1]
           artist == SplitArtist(key)
           track_name == SplitTrack(key)
           album_title == get_album_title(metadata, artist, track_name)
       IN \E outcome \in SearchOutcomes :
             /\ youtube_links' =
                   IF outcome = None THEN youtube_links
                   ELSE Put(youtube_links, key,
                            Entry(artist, track_name, album_title, outcome))
             /\ searches' =
                   Append(searches, [pass |-> 2,
                                     key |-> Key(artist, track_name),
                                     found |-> outcome # None])
    /\ retried' = retried + 1
    /\ processed' = processed + 1
    /\ IF variant = 1 /\ (retried + 1) % batch_every = 0
       THEN pc' = "save" /\ ret' = "pass2"
       ELSE UNCHANGED <<pc, ret>>
    /\ UNCHANGED <<input, metadata, variant, batch_every, disk, loaded, total_tracks, idx,
                   null_keys, to_retry, removed, capped>>
    /\ UNCHANGED exit_code
    /\ UNCHANGED <<callvars, scrapevars, keyvars, match, conf, ids>>

\* The loop of pass 2 is over: commit.
Pass2End ==
    /\ pc = "pass2"
    /\ retried = to_retry
    /\ pc' = "save"
    /\ ret' = "cleanup"
    /\ UNCHANGED <<input, metadata, variant, batch_every, disk, youtube_links, loaded, total_tracks,
                   processed, idx, null_keys, to_retry, retried, removed,
                   capped, searches>>
    /\ UNCHANGED exit_code
    /\ UNCHANGED <<callvars, scrapevars, keyvars, match, conf, ids>>

\* The purge, at the end of main() and in the cap branch: delete the None
\* entries and save if any was deleted; then main() returns.
Cleanup ==
    /\ pc \in {"cleanup", "cap_cleanup"}
    /\ removed' = Len(NullKeys(youtube_links))
    /\ youtube_links' = cleanup_nulls(youtube_links)
    /\ IF Len(NullKeys(youtube_links)) > 0
       THEN pc' = "save" /\ ret' = "done" /\ UNCHANGED exit_code
       ELSE pc' = "done" /\ exit_code' = ReturnExit /\ UNCHANGED ret
    /\ UNCHANGED <<input, metadata, variant, batch_every, disk, loaded, total_tracks, processed,
                   idx, null_keys, to_retry, retried, capped, searches>>
    /\ UNCHANGED <<callvars, scrapevars, keyvars, match, conf, ids>>

\* save_and_commit, first half: open(file, 'w') truncates the store file.
SaveOpen ==
    /\ pc = "save"
    /\ disk' = Partial
    /\ pc' = "dump"
    /\ UNCHANGED <<input, metadata, variant, batch_every, ret, youtube_links, loaded, total_tracks,
                   processed, idx, null_keys, to_retry, retried, removed,
                   capped, searches>>
    /\ UNCHANGED exit_code
    /\ UNCHANGED <<callvars, scrapevars, keyvars, match, conf, ids>>

\* save_and_commit, second half: json.dump has written everything and the
\* file is closed.  After the save of the purge main() returns.
SaveDump ==
    /\ pc = "dump"
    /\ disk' = Complete(youtube_links)
    /\ pc' = ret
    /\ ret' = "none"
    /\ exit_code' = IF ret = "done" THEN ReturnExit ELSE exit_code
    /\ UNCHANGED <<input, metadata, variant, batch_every, youtube_links, loaded, total_tracks,
                   processed, idx, null_keys, to_retry, retried, removed,
                   capped, searches>>
    /\ UNCHANGED <<callvars, scrapevars, keyvars, match, conf, ids>>

\* KeyboardInterrupt (or a signal) while main() runs: nothing in the module
\* catches it, the process ends where it is, without a save, and what it
\* held in memory is gone. The store file stays as it is.
Interrupt ==
    /\ pc \notin Stopped
    /\ pc' = "killed"
    /\ exit_code' \in SignalExits
    /\ ret' = "none"
    /\ youtube_links' = <<>>
    /\ loaded' = <<>>
    /\ total_tracks' = 0
    /\ processed' = 0
    /\ idx' = 1
    /\ null_keys' = <<>>
    /\ to_retry' = 0
    /\ retried' = 0
    /\ removed' = 0
    /\ capped' = FALSE
    /\ searches' = <<>>
    /\ UNCHANGED <<input, metadata, variant, batch_every, disk>>
    /\ UNCHANGED <<callvars, scrapevars, keyvars, match, conf, ids>>

Next ==
    \/ StartRun
    \/ Pass1Skip
    \/ Pass1Cap
    \/ Pass1Search
    \/ Pass1End
    \/ Pass2Select
    \/ Pass2Retry
    \/ Pass2End
    \/ Cleanup
    \/ SaveOpen
    \/ SaveDump
    \/ Interrupt

Spec == Init /\ [][Next]_vars

\* ------------------------------------------------------------------------
\* Invocations that nothing interrupts, one after the other: every run goes
\* on to its end and is followed by another one.
\* ------------------------------------------------------------------------
NextRuns ==
    \/ StartRun
    \/ Pass1Skip
    \/ Pass1Cap
    \/ Pass1Search
    \/ Pass1End
    \/ Pass2Select
    \/ Pass2Retry
    \/ Pass2End
    \/ Cleanup
    \/ SaveOpen
    \/ SaveDump

LiveSpec == Init /\ [][NextRuns]_vars /\ WF_vars(NextRuns)

\* ------------------------------------------------------------------------
\* The same program with BATCH_SIZE set to any value from 1 up to the one
\* above (the two scripts set 1000 and 3000, beside run caps of 10000 and
\* 6000 and a retry budget of 2000).
\* ------------------------------------------------------------------------
BatchInit ==
    /\ ids = <<>>
    /\ conf = <<>>
    /\ match = <<>>
    /\ input \in Inputs
    /\ metadata \in (IF input = "ok" THEN Documents ELSE {<<>>})
    /\ variant \in {1, 2}
    /\ batch_every \in 1..BATCH_SIZE
    /\ disk = Absent
    /\ pc = "idle"
    /\ ret = "none"
    /\ youtube_links = <<>>
    /\ loaded = <<>>
    /\ total_tracks = 0
    /\ processed = 0
    /\ idx = 1
    /\ null_keys = <<>>
    /\ to_retry = 0
    /\ retried = 0
    /\ removed = 0
    /\ capped = FALSE
    /\ exit_code = None
    /\ searches = <<>>
    /\ NoCall
    /\ NoScrape
    /\ NoKey

BatchSpec == BatchInit /\ [][Next]_vars

\* ------------------------------------------------------------------------
\* One call of fetch_collection or download_album_art (the collection
\* scraper) or of search_youtube (the link search), from its first line to
\* its return.  A string the code builds from parts is the sequence of its
\* parts.
\* ------------------------------------------------------------------------
\* Largest attempt budget of a call.
MaxAttempts == 4
\* str(e)[:30], in parts instead of characters.
MsgLimit == 2

RETRY_BACKOFF_BASE == 7

NULL_RETRY_RESULTS == 10

FetchFunctions == {"fetch_collection", "download_album_art"}

Functions == FetchFunctions \cup {"search_youtube"}

\* What session.get comes back with: a response with a status, or one of
\* the three exception classes the code tells apart.
HttpStatuses == {200, 204, 403, 404, 500, 503}

ClientMessages == { <<"Cannot", " connect", " to host">> }

ExceptionMessages == { <<"boom">>, <<"http_", "404">> }

HttpOutcomes ==
    {[kind |-> "http", status |-> c, msg |-> <<>>] : c \in HttpStatuses}
    \cup {[kind |-> "timeout", status |-> 0, msg |-> <<>>]}
    \cup {[kind |-> "client", status |-> 0, msg |-> m] : m \in ClientMessages}
    \cup {[kind |-> "exception", status |-> 0, msg |-> m] : m \in ExceptionMessages}

\* What _yt_search comes back with: entries of which one validates, entries
\* of which none validates, no entries, a yt-dlp DownloadError, or another
\* exception.
DownloadErrorMessages ==
    { <<"HTTP Error ", "403", ": Forbidden">>, <<"HTTP Error ", "429">>,
      <<"Read ", "timed out">>, <<"Connection ", "Timed Out">>,
      <<"HTTP Error ", "404">>, <<"Video unavailable">> }

SearchResults ==
    {[kind |-> "match", id |-> "v1", msg |-> <<>>],
     [kind |-> "no_match", id |-> "", msg |-> <<>>],
     [kind |-> "empty", id |-> "", msg |-> <<>>],
     [kind |-> "exception", id |-> "", msg |-> <<"boom">>]}
    \cup {[kind |-> "download_error", id |-> "", msg |-> m] : m \in DownloadErrorMessages}

\* str(e)[:30]
Truncate(msg) == SubSeq(msg, 1, Min(Len(msg), MsgLimit))

\* f'error_http_{response.status}'
ErrorHttp(status) == <<"error_", "http_", ToString(status)>>

\* last_error as the except clauses and the else branch set it.
Classify(outcome) ==
    CASE outcome.kind = "http" -> ErrorHttp(outcome.status)
      [] outcome.kind = "timeout" -> <<"error_", "timeout">>
      [] outcome.kind = "client" -> <<"error_", "client_">> \o Truncate(outcome.msg)
      [] outcome.kind = "exception" -> <<"error_">> \o Truncate(outcome.msg)

\* A test for client errors that never holds.
IsClientErrorNever(status) == FALSE

\* if 400 <= response.status < 500
IsClientError(status) == 400 <= status /\ status < 500

\* A loop that runs once more than range() does.
InRangeInclusive(i, n) == i <= n

\* for attempt in range(n)
InRange(i, n) == i < n

\* An exhausted status without its tag.
Untagged(error, n) == error

\* f'{last_error}_after_{max_retries}_retries'
Tagged(error, n) == error \o <<"_after_", ToString(n), "_retries">>

\* A delay that shrinks from attempt to attempt.
wait_time_shrinking(i) == 4000 \div (2 ^ i)

\* wait_time = (2 ** attempt) * 0.5, in milliseconds
wait_time(i) == (2 ^ i) * 500

\* A delay that does not grow.
backoff_flat(i) == RETRY_BACKOFF_BASE * 1000

\* backoff = RETRY_BACKOFF_BASE * (attempt + 1), in milliseconds
backoff(i) == RETRY_BACKOFF_BASE * (i + 1) * 1000

\* str.lower(), part by part.
LowerPart(part) ==
    CASE part = "Timed Out" -> "timed out"
      [] part = "Connection " -> "connection "
      [] part = "Read " -> "read "
      [] part = "HTTP Error " -> "http error "
      [] part = ": Forbidden" -> ": forbidden"
      [] part = "Video unavailable" -> "video unavailable"
      [] OTHER -> part

Lower(msg) == [i \in 1..Len(msg) |-> LowerPart(msg[i])]

\* needle in msg
Contains(msg, needle) == \E i \in 1..Len(msg) : msg[i] = needle

\* A transient test that forgets 429.
TransientWithout429(msg) ==
    Contains(msg, "403") \/ Contains(Lower(msg), "timed out")

\* transient = ('403' in msg) or ('429' in msg) or ('timed out' in msg.lower())
Transient(msg) ==
    Contains(msg, "403") \/ Contains(msg, "429") \/ Contains(Lower(msg), "timed out")

\* The request attempt ended in an exception instead of a value.
Raises(outcome) == outcome.kind \in {"timeout", "client", "exception", "download_error"}

\* except clauses that name their exception classes and nothing else.
ExceptsNamedOnly(f) ==
    IF f = "search_youtube" THEN {"download_error"} ELSE {"timeout", "client"}

\* The exceptions that the except clauses around a request attempt catch:
\* asyncio.TimeoutError, aiohttp.ClientError and Exception in the scraper,
\* yt_dlp.utils.DownloadError and Exception in search_youtube.
Excepts(f) ==
    IF f = "search_youtube" THEN {"download_error", "exception"}
    ELSE {"timeout", "client", "exception"}

\* The exception leaves the function.
Escapes(f, outcome) == Raises(outcome) /\ outcome.kind \notin Excepts(f)

\* A result window that is never widened.
ResultsCountNarrow(i, widen) == 5

\* results_count = 5 if (attempt == 0 or not widen_on_retry) else NULL_RETRY_RESULTS
ResultsCount(i, widen) == IF i = 0 \/ ~widen THEN 5 ELSE NULL_RETRY_RESULTS

\* No run of main() is modelled: its variables keep these values.
NoRun ==
    /\ input = "ok"
    /\ metadata = <<>>
    /\ variant = 1
    /\ batch_every = BATCH_SIZE
    /\ disk = Absent
    /\ pc = "idle"
    /\ ret = "none"
    /\ youtube_links = <<>>
    /\ loaded = <<>>
    /\ total_tracks = 0
    /\ processed = 0
    /\ idx = 1
    /\ null_keys = <<>>
    /\ to_retry = 0
    /\ retried = 0
    /\ removed = 0
    /\ capped = FALSE
    /\ exit_code = None
    /\ searches = <<>>

\* The call is made: any of the three functions, any attempt budget.
CallInit ==
    /\ ids = <<>>
    /\ conf = <<>>
    /\ match = <<>>
    /\ NoRun
    /\ NoScrape
    /\ NoKey
    /\ fn \in Functions
    /\ max_retries \in 0..MaxAttempts
    /\ widen_on_retry \in (IF fn = "search_youtube" THEN BOOLEAN ELSE {FALSE})
    /\ attempt = 0
    /\ last_error = <<"None">>
    /\ cpc = "request"
    /\ requests = <<>>
    /\ results_counts = <<>>
    /\ sleeps = <<>>
    /\ result = <<>>

\* One pass through the try block of fetch_collection / download_album_art:
\* the request, and what the code does with the response or the exception.
\* 200 returns success; 404 returns '404' (fetch_collection only); any other
\* status sets last_error and returns it if it is a client error; everything
\* else goes on to the backoff.
FetchRequest ==
    /\ fn \in FetchFunctions
    /\ cpc = "request"
    /\ InRange(attempt, max_retries)
    /\ \E outcome \in HttpOutcomes :
          /\ requests' = Append(requests, outcome)
          /\ IF Escapes(fn, outcome)
             THEN /\ cpc' = "raised"
                  /\ UNCHANGED <<last_error, result>>
             ELSE IF outcome.kind = "http" /\ outcome.status = 200
             THEN /\ result' = <<"success">>
                  /\ cpc' = "returned"
                  /\ UNCHANGED last_error
             ELSE IF outcome.kind = "http" /\ outcome.status = 404
                     /\ fn = "fetch_collection"
             THEN /\ result' = <<"404">>
                  /\ cpc' = "returned"
                  /\ UNCHANGED last_error
             ELSE /\ last_error' = Classify(outcome)
                  /\ IF outcome.kind = "http" /\ IsClientError(outcome.status)
                     THEN result' = Classify(outcome) /\ cpc' = "returned"
                     ELSE cpc' = "backoff" /\ UNCHANGED result
    /\ UNCHANGED <<fn, max_retries, widen_on_retry, attempt, results_counts, sleeps>>
    /\ UNCHANGED <<mainvars, scrapevars, keyvars, match, conf, ids>>

\* The end of the loop body: sleep unless this was the last attempt.
FetchBackoff ==
    /\ fn \in FetchFunctions
    /\ cpc = "backoff"
    /\ sleeps' = IF attempt < max_retries - 1
                 THEN Append(sleeps, [before |-> Len(requests) + 1, delay |-> wait_time(attempt)])
                 ELSE sleeps
    /\ attempt' = attempt + 1
    /\ cpc' = "request"
    /\ UNCHANGED <<fn, max_retries, widen_on_retry, last_error, requests,
                   results_counts, result>>
    /\ UNCHANGED <<mainvars, scrapevars, keyvars, match, conf, ids>>

\* The loop is over: the exhausted status.
FetchExhausted ==
    /\ fn \in FetchFunctions
    /\ cpc = "request"
    /\ ~InRange(attempt, max_retries)
    /\ result' = Tagged(last_error, max_retries)
    /\ cpc' = "returned"
    /\ UNCHANGED <<fn, max_retries, widen_on_retry, attempt, last_error, requests,
                   results_counts, sleeps>>
    /\ UNCHANGED <<mainvars, scrapevars, keyvars, match, conf, ids>>

\* One pass through the try block of search_youtube: the search, and what
\* the code does with its result or its exception.  Entries return the first
\* validated video id or None; a result without entries falls through to the
\* next attempt; a transient DownloadError, or any other exception, goes to
\* the backoff if an attempt is left and returns None otherwise.
SearchAttempt ==
    /\ fn = "search_youtube"
    /\ cpc = "request"
    /\ InRange(attempt, max_retries)
    /\ results_counts' = Append(results_counts, ResultsCount(attempt, widen_on_retry))
    /\ \E outcome \in SearchResults :
          /\ requests' = Append(requests, outcome)
          /\ CASE outcome.kind = "match" ->
                    /\ result' = Some(outcome.id)
                    /\ cpc' = "returned"
                    /\ UNCHANGED attempt
               [] outcome.kind = "no_match" ->
                    /\ result' = None
                    /\ cpc' = "returned"
                    /\ UNCHANGED attempt
               [] outcome.kind = "empty" ->
                    /\ attempt' = attempt + 1
                    /\ UNCHANGED <<cpc, result>>
               [] Escapes(fn, outcome) ->
                    /\ cpc' = "raised"
                    /\ UNCHANGED <<attempt, result>>
               [] outcome.kind = "download_error" /\ ~Escapes(fn, outcome) ->
                    IF Transient(outcome.msg) /\ attempt < max_retries - 1
                    THEN cpc' = "backoff" /\ UNCHANGED <<attempt, result>>
                    ELSE result' = None /\ cpc' = "returned" /\ UNCHANGED attempt
               [] outcome.kind = "exception" /\ ~Escapes(fn, outcome) ->
                    IF attempt < max_retries - 1
                    THEN cpc' = "backoff" /\ UNCHANGED <<attempt, result>>
                    ELSE result' = None /\ cpc' = "returned" /\ UNCHANGED attempt
    /\ UNCHANGED <<fn, max_retries, widen_on_retry, last_error, sleeps>>
    /\ UNCHANGED <<mainvars, scrapevars, keyvars, match, conf, ids>>

\* time.sleep(backoff + random.uniform(0.5, 2.0)); continue
SearchBackoff ==
    /\ fn = "search_youtube"
    /\ cpc = "backoff"
    /\ sleeps' = Append(sleeps, [before |-> Len(requests) + 1, delay |-> backoff(attempt)])
    /\ attempt' = attempt + 1
    /\ cpc' = "request"
    /\ UNCHANGED <<fn, max_retries, widen_on_retry, last_error, requests,
                   results_counts, result>>
    /\ UNCHANGED <<mainvars, scrapevars, keyvars, match, conf, ids>>

\* The loop is over: return None.
SearchLoopEnd ==
    /\ fn = "search_youtube"
    /\ cpc = "request"
    /\ ~InRange(attempt, max_retries)
    /\ result' = None
    /\ cpc' = "returned"
    /\ UNCHANGED <<fn, max_retries, widen_on_retry, attempt, last_error, requests,
                   results_counts, sleeps>>
    /\ UNCHANGED <<mainvars, scrapevars, keyvars, match, conf, ids>>

CallNext ==
    \/ FetchRequest
    \/ FetchBackoff
    \/ FetchExhausted
    \/ SearchAttempt
    \/ SearchBackoff
    \/ SearchLoopEnd

CallSpec == CallInit /\ [][CallNext]_vars

\* ------------------------------------------------------------------------
\* scrape_collections: the batches, the tasks of a batch (fetch_and_process)
\* with the semaphore and the lock they share, and the saves.  The tasks are
\* coroutines of one event loop: a task runs alone from one suspension point
\* to the next (running is that task), and it suspends only while it waits
\* for the semaphore, for a response or in a backoff sleep.  The branch at
\* 337-339 is not modelled: fetch_collection returns a dict and never an
\* Exception.  The CSV file is not modelled.  save_results is three steps
\* (the temporary file opened, written, renamed over the target), and the
\* run can be interrupted at every position.
\* ------------------------------------------------------------------------
\* scrape_collections is entered: the arguments that main() lets through
\* (start <= end, concurrency >= 1, batch size >= 1) and the locals of 282-306.
ScrapeInit ==
    /\ ids = <<>>
    /\ conf = <<>>
    /\ match = <<>>
    /\ NoRun
    /\ NoKey
    /\ fn = "none"
    /\ max_retries \in ScrapeRetries
    /\ widen_on_retry = FALSE
    /\ attempt = 0
    /\ last_error = <<"None">>
    /\ cpc = "returned"
    /\ requests = <<>>
    /\ results_counts = <<>>
    /\ sleeps = <<>>
    /\ result = <<>>
    /\ start_id \in Ids
    /\ end_id \in start_id..MaxId
    /\ concurrency \in 1..MaxConcurrency
    /\ batch_size \in 1..MaxId
    /\ download_art \in BOOLEAN
    /\ batch_start = start_id
    /\ spc = "loop"
    /\ task = [t \in Ids |-> NoTask]
    /\ sem = concurrency
    /\ lock = 0
    /\ running = 0
    /\ all_metadata = <<>>
    /\ counters = [success |-> 0, not_found |-> 0, error |-> 0]
    /\ download_counters = [success |-> 0, error |-> 0]
    /\ last_save_time = 0
    /\ json_file \in {Absent, PriorFile}
    /\ json_temp = Absent
    /\ save_pc = "none"
    /\ completed = <<>>

\* The head of the batch loop: one task per collection id of the batch, all
\* handed to asyncio.gather.  Each starts at the semaphore of fetch_collection.
StartBatch ==
    /\ spc = "loop"
    /\ batch_start <= end_id
    /\ task' = [t \in Ids |->
                  IF t \in Batch THEN [NoTask EXCEPT !.pc = "sem"] ELSE task[t]]
    /\ spc' = "gather"
    /\ UNCHANGED <<start_id, end_id, concurrency, batch_size, download_art,
                   batch_start, sem, lock, running, all_metadata, counters,
                   download_counters, last_save_time, json_file, json_temp, save_pc, completed>>
    /\ UNCHANGED <<mainvars, callvars, keyvars, match, conf, ids>>

\* fetch_collection, `async with semaphore`: the task goes on to its first
\* request when the semaphore lets it.
Acquire(t) ==
    /\ running = 0
    /\ task[t].pc = "sem"
    /\ SemAvailable(sem)
    /\ sem' = sem - 1
    /\ task' = [task EXCEPT ![t].pc = "request", ![t].attempt = 0]
    /\ UNCHANGED <<start_id, end_id, concurrency, batch_size, download_art,
                   batch_start, spc, lock, running, all_metadata, counters,
                   download_counters, last_save_time, json_file, json_temp, save_pc, completed>>
    /\ UNCHANGED <<mainvars, callvars, keyvars, match, conf, ids>>

\* fetch_collection, a request comes back.  A retryable failure with an
\* attempt left leads to the backoff sleep; anything else ends
\* fetch_collection, which leaves the semaphore and returns the dict to
\* fetch_and_process, which runs on without suspending.
FetchResponse(t) ==
    /\ running = 0
    /\ task[t].pc = "request"
    /\ \E outcome \in FetchOutcomes :
          IF outcome = "retryable" /\ task[t].attempt + 1 < max_retries
          THEN /\ task' = [task EXCEPT ![t].pc = "backoff"]
               /\ UNCHANGED <<sem, running, completed>>
          ELSE /\ task' = [task EXCEPT ![t].pc = "lock",
                                       ![t].metadata = Some(Metadata(t, outcome))]
               /\ sem' = SemRelease(sem)
               /\ running' = t
               /\ completed' = Append(completed, t)
    /\ UNCHANGED <<start_id, end_id, concurrency, batch_size, download_art,
                   batch_start, spc, lock, all_metadata, counters,
                   download_counters, last_save_time, json_file, json_temp, save_pc>>
    /\ UNCHANGED <<mainvars, callvars, keyvars, match, conf, ids>>

\* fetch_collection, the backoff sleep is over: the next request, with the
\* semaphore still held.
FetchRetry(t) ==
    /\ running = 0
    /\ task[t].pc = "backoff"
    /\ task' = [task EXCEPT ![t].pc = "request", ![t].attempt = @ + 1]
    /\ UNCHANGED <<start_id, end_id, concurrency, batch_size, download_art,
                   batch_start, spc, sem, lock, running, all_metadata, counters,
                   download_counters, last_save_time, json_file, json_temp, save_pc, completed>>
    /\ UNCHANGED <<mainvars, callvars, keyvars, match, conf, ids>>

\* process_and_save, `async with lock`.
LockAcquire(t) ==
    /\ running = t
    /\ task[t].pc = "lock"
    /\ lock = 0
    /\ lock' = t
    /\ task' = [task EXCEPT ![t].pc = "append"]
    /\ UNCHANGED <<start_id, end_id, concurrency, batch_size, download_art,
                   batch_start, spc, sem, running, all_metadata, counters,
                   download_counters, last_save_time, json_file, json_temp, save_pc, completed>>
    /\ UNCHANGED <<mainvars, callvars, keyvars, match, conf, ids>>

\* process_and_save, all_metadata.append(metadata).
ApplyAppend(t) ==
    /\ running = t
    /\ task[t].pc = "append"
    /\ all_metadata' = ListAppend(all_metadata, task[t].metadata[1])
    /\ task' = [task EXCEPT ![t].pc = "count"]
    /\ UNCHANGED <<start_id, end_id, concurrency, batch_size, download_art,
                   batch_start, spc, sem, lock, running, counters,
                   download_counters, last_save_time, json_file, json_temp, save_pc, completed>>
    /\ UNCHANGED <<mainvars, callvars, keyvars, match, conf, ids>>

\* process_and_save, the counter of the status.
ApplyCount(t) ==
    /\ running = t
    /\ task[t].pc = "count"
    /\ counters' = Tally(counters, task[t].metadata[1].status)
    /\ task' = [task EXCEPT ![t].pc = "save"]
    /\ UNCHANGED <<start_id, end_id, concurrency, batch_size, download_art,
                   batch_start, spc, sem, lock, running, all_metadata,
                   download_counters, last_save_time, json_file, json_temp, save_pc, completed>>
    /\ UNCHANGED <<mainvars, callvars, keyvars, match, conf, ids>>

\* process_and_save, the timed save: at the first result, and then when 15
\* seconds have passed since the last save.
ApplySave(t) ==
    /\ running = t
    /\ task[t].pc = "save"
    /\ \E due \in BOOLEAN :
          IF last_save_time = 0 \/ due
          THEN /\ task' = [task EXCEPT ![t].pc = "saving"]
               /\ save_pc' = "open"
          ELSE /\ task' = [task EXCEPT ![t].pc = "unlock"]
               /\ UNCHANGED save_pc
    /\ UNCHANGED <<start_id, end_id, concurrency, batch_size, download_art,
                   batch_start, spc, sem, lock, running, all_metadata, counters,
                   download_counters, last_save_time, json_file, json_temp,
                   completed>>
    /\ UNCHANGED <<mainvars, callvars, keyvars, match, conf, ids>>

\* process_and_save returns and leaves the lock; fetch_and_process goes on
\* to download_album_art, where it starts at the semaphore, or ends.
LockRelease(t) ==
    /\ running = t
    /\ task[t].pc = "unlock"
    /\ lock' = 0
    /\ running' = 0
    /\ task' = [task EXCEPT ![t].pc =
                  IF /\ download_art
                     /\ task[t].metadata[1].status = "success"
                     /\ task[t].metadata[1].image_url
                  THEN "art_sem" ELSE "done"]
    /\ UNCHANGED <<start_id, end_id, concurrency, batch_size, download_art,
                   batch_start, spc, sem, all_metadata, counters,
                   download_counters, last_save_time, json_file, json_temp, save_pc, completed>>
    /\ UNCHANGED <<mainvars, callvars, keyvars, match, conf, ids>>

\* download_album_art, `async with semaphore`.
ArtAcquire(t) ==
    /\ running = 0
    /\ task[t].pc = "art_sem"
    /\ SemAvailable(sem)
    /\ sem' = sem - 1
    /\ task' = [task EXCEPT ![t].pc = "art_request", ![t].attempt = 0]
    /\ UNCHANGED <<start_id, end_id, concurrency, batch_size, download_art,
                   batch_start, spc, lock, running, all_metadata, counters,
                   download_counters, last_save_time, json_file, json_temp, save_pc, completed>>
    /\ UNCHANGED <<mainvars, callvars, keyvars, match, conf, ids>>

\* download_album_art, a request comes back: the backoff sleep after a
\* retryable failure with an attempt left, else the semaphore is left and
\* art_result is back in fetch_and_process.
ArtResponse(t) ==
    /\ running = 0
    /\ task[t].pc = "art_request"
    /\ \E outcome \in ArtOutcomes :
          IF outcome = "retryable" /\ task[t].attempt + 1 < max_retries
          THEN /\ task' = [task EXCEPT ![t].pc = "art_backoff"]
               /\ UNCHANGED <<sem, running>>
          ELSE /\ task' = [task EXCEPT ![t].pc = "art_lock",
                                       ![t].art = IF outcome = "success"
                                                  THEN "success" ELSE "error"]
               /\ sem' = SemRelease(sem)
               /\ running' = t
    /\ UNCHANGED <<start_id, end_id, concurrency, batch_size, download_art,
                   batch_start, spc, lock, all_metadata, counters,
                   download_counters, last_save_time, json_file, json_temp, save_pc, completed>>
    /\ UNCHANGED <<mainvars, callvars, keyvars, match, conf, ids>>

\* download_album_art, the backoff sleep is over: the next request, with
\* the semaphore still held.
ArtRetry(t) ==
    /\ running = 0
    /\ task[t].pc = "art_backoff"
    /\ task' = [task EXCEPT ![t].pc = "art_request", ![t].attempt = @ + 1]
    /\ UNCHANGED <<start_id, end_id, concurrency, batch_size, download_art,
                   batch_start, spc, sem, lock, running, all_metadata, counters,
                   download_counters, last_save_time, json_file, json_temp, save_pc, completed>>
    /\ UNCHANGED <<mainvars, callvars, keyvars, match, conf, ids>>

\* fetch_and_process, `async with lock` after the download.
ArtLockAcquire(t) ==
    /\ running = t
    /\ task[t].pc = "art_lock"
    /\ lock = 0
    /\ lock' = t
    /\ task' = [task EXCEPT ![t].pc = "art_apply"]
    /\ UNCHANGED <<start_id, end_id, concurrency, batch_size, download_art,
                   batch_start, spc, sem, running, all_metadata, counters,
                   download_counters, last_save_time, json_file, json_temp, save_pc, completed>>
    /\ UNCHANGED <<mainvars, callvars, keyvars, match, conf, ids>>

\* fetch_and_process, the download counter, and the file name written into
\* the dict that is in the result list; the lock is left.
ArtApply(t) ==
    /\ running = t
    /\ task[t].pc = "art_apply"
    /\ IF task[t].art = "success"
       THEN /\ download_counters' = [download_counters EXCEPT !.success = @ + 1]
            /\ all_metadata' =
                  [i \in 1..Len(all_metadata) |->
                      IF all_metadata[i].collection_id = t
                      THEN [all_metadata[i] EXCEPT !.album_art_file = TRUE]
                      ELSE all_metadata[i]]
            /\ task' = [task EXCEPT ![t].pc = "done",
                                    ![t].metadata[1].album_art_file = TRUE]
       ELSE /\ download_counters' = [download_counters EXCEPT !.error = @ + 1]
            /\ task' = [task EXCEPT ![t].pc = "done"]
            /\ UNCHANGED all_metadata
    /\ lock' = 0
    /\ running' = 0
    /\ UNCHANGED <<start_id, end_id, concurrency, batch_size, download_art,
                   batch_start, spc, sem, counters, last_save_time, json_file, json_temp, save_pc,
                   completed>>
    /\ UNCHANGED <<mainvars, callvars, keyvars, match, conf, ids>>

\* asyncio.gather returns: every task of the batch has ended.
BatchDone ==
    /\ spc = "gather"
    /\ \A t \in Batch : task[t].pc = "done"
    /\ batch_start' = batch_start + batch_size
    /\ spc' = "loop"
    /\ UNCHANGED <<start_id, end_id, concurrency, batch_size, download_art,
                   task, sem, lock, running, all_metadata, counters,
                   download_counters, last_save_time, json_file, json_temp, save_pc, completed>>
    /\ UNCHANGED <<mainvars, callvars, keyvars, match, conf, ids>>

\* The batch loop is over: the final save.
Finish ==
    /\ spc = "loop"
    /\ batch_start > end_id
    /\ spc' = "final_save"
    /\ save_pc' = "open"
    /\ UNCHANGED <<start_id, end_id, concurrency, batch_size, download_art,
                   batch_start, task, sem, lock, running, all_metadata, counters,
                   download_counters, last_save_time, json_file, json_temp,
                   completed>>
    /\ UNCHANGED <<mainvars, callvars, keyvars, match, conf, ids>>

\* save_results, open(json_temp, 'w'): the file at the temporary path is
\* there and empty.
WriteTemp ==
    /\ save_pc = "open"
    /\ IF json_temp_path(OutputFile) = OutputFile
       THEN json_file' = Partial /\ UNCHANGED json_temp
       ELSE json_temp' = Partial /\ UNCHANGED json_file
    /\ save_pc' = "dump"
    /\ UNCHANGED <<start_id, end_id, concurrency, batch_size, download_art,
                   batch_start, spc, task, sem, lock, running, all_metadata,
                   counters, download_counters, last_save_time, completed>>
    /\ UNCHANGED <<mainvars, callvars, keyvars, match, conf, ids>>

\* save_results, json.dump has written the successful items, sorted, and the
\* file is closed.
DumpTemp ==
    /\ save_pc = "dump"
    /\ IF json_temp_path(OutputFile) = OutputFile
       THEN json_file' = save_results(all_metadata) /\ UNCHANGED json_temp
       ELSE json_temp' = save_results(all_metadata) /\ UNCHANGED json_file
    /\ save_pc' = "replace"
    /\ UNCHANGED <<start_id, end_id, concurrency, batch_size, download_art,
                   batch_start, spc, task, sem, lock, running, all_metadata,
                   counters, download_counters, last_save_time, completed>>
    /\ UNCHANGED <<mainvars, callvars, keyvars, match, conf, ids>>

\* save_results, os.replace(json_temp, json_file), and the return to the
\* caller: process_and_save notes the time of the save, scrape_collections
\* goes on to its summary.
ReplaceTarget ==
    /\ save_pc = "replace"
    /\ IF json_temp_path(OutputFile) = OutputFile
       THEN UNCHANGED <<json_file, json_temp>>
       ELSE json_file' = json_temp /\ json_temp' = Absent
    /\ save_pc' = "none"
    /\ IF spc = "final_save"
       THEN /\ spc' = "finished"
            /\ UNCHANGED <<task, last_save_time>>
       ELSE /\ task' = [task EXCEPT ![running].pc = "unlock"]
            /\ last_save_time' = 1
            /\ UNCHANGED spc
    /\ UNCHANGED <<start_id, end_id, concurrency, batch_size, download_art,
                   batch_start, sem, lock, running, all_metadata, counters,
                   download_counters, completed>>
    /\ UNCHANGED <<mainvars, callvars, keyvars, match, conf, ids>>

\* KeyboardInterrupt, or the end of the process, at any point of the run:
\* what the process held in memory is gone (the variables go back to their
\* values at entry), the files stay as they are.
ScrapeInterrupt ==
    /\ spc \in {"loop", "gather", "final_save"}
    /\ spc' = "interrupted"
    /\ save_pc' = "none"
    /\ batch_start' = start_id
    /\ task' = [t \in Ids |-> NoTask]
    /\ sem' = concurrency
    /\ lock' = 0
    /\ running' = 0
    /\ all_metadata' = <<>>
    /\ counters' = [success |-> 0, not_found |-> 0, error |-> 0]
    /\ download_counters' = [success |-> 0, error |-> 0]
    /\ last_save_time' = 0
    /\ completed' = <<>>
    /\ UNCHANGED <<start_id, end_id, concurrency, batch_size, download_art,
                   json_file, json_temp>>
    /\ UNCHANGED <<mainvars, callvars, keyvars, match, conf, ids>>

ScrapeNext ==
    \/ StartBatch
    \/ \E t \in Ids : Acquire(t)
    \/ \E t \in Ids : FetchResponse(t)
    \/ \E t \in Ids : FetchRetry(t)
    \/ \E t \in Ids : LockAcquire(t)
    \/ \E t \in Ids : ApplyAppend(t)
    \/ \E t \in Ids : ApplyCount(t)
    \/ \E t \in Ids : ApplySave(t)
    \/ \E t \in Ids : LockRelease(t)
    \/ \E t \in Ids : ArtAcquire(t)
    \/ \E t \in Ids : ArtResponse(t)
    \/ \E t \in Ids : ArtRetry(t)
    \/ \E t \in Ids : ArtLockAcquire(t)
    \/ \E t \in Ids : ArtApply(t)
    \/ BatchDone
    \/ Finish
    \/ WriteTemp
    \/ DumpTemp
    \/ ReplaceTarget
    \/ ScrapeInterrupt

ScrapeSpec == ScrapeInit /\ [][ScrapeNext]_vars

\* A run that nothing interrupts: the event loop goes on with a task that
\* can run, and every request on the network comes back, with a response, an
\* error or a timeout.
ScrapeRuns ==
    \/ StartBatch
    \/ \E t \in Ids : Acquire(t)
    \/ \E t \in Ids : FetchResponse(t)
    \/ \E t \in Ids : FetchRetry(t)
    \/ \E t \in Ids : LockAcquire(t)
    \/ \E t \in Ids : ApplyAppend(t)
    \/ \E t \in Ids : ApplyCount(t)
    \/ \E t \in Ids : ApplySave(t)
    \/ \E t \in Ids : LockRelease(t)
    \/ \E t \in Ids : ArtAcquire(t)
    \/ \E t \in Ids : ArtResponse(t)
    \/ \E t \in Ids : ArtRetry(t)
    \/ \E t \in Ids : ArtLockAcquire(t)
    \/ \E t \in Ids : ArtApply(t)
    \/ BatchDone
    \/ Finish
    \/ WriteTemp
    \/ DumpTemp
    \/ ReplaceTarget

\* The runs over one id and over two: two tasks are enough to contend for
\* the semaphore and for the lock.
ScrapeLiveInit ==
    /\ ScrapeInit
    /\ end_id <= start_id + 1

ScrapeLiveSpec == ScrapeLiveInit /\ [][ScrapeRuns]_vars /\ WF_vars(ScrapeRuns)

\* ------------------------------------------------------------------------
\* The key of a track on its own: pass 1 builds it from the artist and the
\* track name, the null-retry pass splits it at its first '|'.  The artist
\* and the track name are any non-empty strings (the loops of pass 1 pass
\* over empty ones), also strings with a '|' in them.
\* ------------------------------------------------------------------------
NameChars == {"a", "|"}

Names == UNION {[1..n -> NameChars] : n \in 1..MaxNameLen}

KeyInit ==
    /\ ids = <<>>
    /\ conf = <<>>
    /\ match = <<>>
    /\ NoRun
    /\ NoCall
    /\ NoScrape
    /\ key_in \in Names \X Names
    /\ key_other \in Names \X Names
    /\ key_out = <<>>
    /\ key_split = <<>>
    /\ kpc = "start"

\* key = f"{artist}|{track_name}", for both tracks.
BuildKey ==
    /\ kpc = "start"
    /\ key_out' = <<Key(key_in[1], key_in[2]), Key(key_other[1], key_other[2])>>
    /\ kpc' = "keyed"
    /\ UNCHANGED <<key_in, key_other, key_split>>
    /\ UNCHANGED <<mainvars, callvars, scrapevars, match, conf, ids>>

\* artist, track_name = key.split('|', 1)
SplitKey ==
    /\ kpc = "keyed"
    /\ key_split' = <<SplitArtist(key_out[1]), SplitTrack(key_out[1])>>
    /\ kpc' = "split"
    /\ UNCHANGED <<key_in, key_other, key_out>>
    /\ UNCHANGED <<mainvars, callvars, scrapevars, match, conf, ids>>

KeyNext ==
    \/ BuildKey
    \/ SplitKey

KeySpec == KeyInit /\ [][KeyNext]_vars

\* ------------------------------------------------------------------------
\* validate_match, both variants.  A text is a sequence of characters.
\* ------------------------------------------------------------------------
\* The letters, upper case and lower case.
Letters ==
    [upper |-> <<"A", "B", "C", "D", "E", "F", "G", "H", "I", "J", "K", "L", "M",
                 "N", "O", "P", "Q", "R", "S", "T", "U", "V", "W", "X", "Y", "Z">>,
     lower |-> <<"a", "b", "c", "d", "e", "f", "g", "h", "i", "j", "k", "l", "m",
                 "n", "o", "p", "q", "r", "s", "t", "u", "v", "w", "x", "y", "z">>]

\* \w: a letter (with an accent or without; the one letter with an accent
\* that the texts have is written by its name), a digit or the underscore.
IsWordChar(c) ==
    \/ \E i \in 1..26 : c = Letters.upper[i] \/ c = Letters.lower[i]
    \/ c \in {"0", "1", "2", "3", "4", "5", "6", "7", "8", "9"}
    \/ c = "e-acute"
    \/ c = "_"

\* str.lower()
lower(text) ==
    [i \in 1..Len(text) |->
        IF \E k \in 1..26 : text[i] = Letters.upper[k]
        THEN Letters.lower[CHOOSE k \in 1..26 : text[i] = Letters.upper[k]]
        ELSE text[i]]

\* str.split(): the maximal runs of characters that are not whitespace.
RECURSIVE SplitFrom(_, _, _)
SplitFrom(text, word, words) ==
    IF text = <<>>
    THEN IF word = <<>> THEN words ELSE Append(words, word)
    ELSE IF Head(text) = " "
         THEN SplitFrom(Tail(text), <<>>,
                        IF word = <<>> THEN words ELSE Append(words, word))
         ELSE SplitFrom(Tail(text), Append(word, Head(text)), words)

split(text) == SplitFrom(text, <<>>, <<>>)

\* ' '.join(words)
RECURSIVE join(_)
join(words) ==
    IF words = <<>> THEN <<>>
    ELSE IF Len(words) = 1 THEN words[1]
         ELSE words[1] \o <<" ">> \o join(Tail(words))

\* Variant 1, clean(text): re.sub(r'[^\w\s]', ' ', text), then the
\* whitespace is collapsed.
clean(text) ==
    join(split([i \in 1..Len(text) |->
                   IF IsWordChar(text[i]) \/ text[i] = " " THEN text[i] ELSE " "]))

\* Variant 2, normalize(text): lower case, the accents taken off (NFKD, and
\* the combining characters removed), the three apostrophes taken out, then
\* as clean.
normalize(text) ==
    LET lowered == lower(text)
        plain == [i \in 1..Len(lowered) |->
                     IF lowered[i] = "e-acute" THEN "e" ELSE lowered[i]]
        kept == SelectSeq(plain, LAMBDA c :
                    c \notin {"apostrophe", "backtick", "right-quote"})
    IN clean(kept)

\* The words before the first of ft, feat, featuring, with, and.
RECURSIVE BeforeFeature(_)
BeforeFeature(words) ==
    IF \/ words = <<>>
       \/ Head(words) \in {<<"f", "t">>, <<"f", "e", "a", "t">>,
                           <<"f", "e", "a", "t", "u", "r", "i", "n", "g">>,
                           <<"w", "i", "t", "h">>, <<"a", "n", "d">>}
    THEN <<>>
    ELSE <<Head(words)>> \o BeforeFeature(Tail(words))

\* re.split(r'\b(ft|feat|featuring|with|and)\b', text)[0].strip(), of a
\* text that clean or normalize returned: its words are runs of \w
\* characters, so the pattern matches whole words and nothing else.
no_feat(text) == join(BeforeFeature(split(text)))

\* [w for w in text.split() if len(w) > 1]
LongWords(text) == SelectSeq(split(text), LAMBDA w : Len(w) > 1)

\* part in text, of two strings.
InText(text, part) ==
    \E i \in 0..(Len(text) - Len(part)) : SubSeq(text, i + 1, i + Len(part)) = part

\* fetch_youtube_links.py, validate_match.
validate_match(artist, track_name, video_title, video_channel) ==
    LET video_title_clean == clean(lower(video_title))
        video_channel_lower == lower(video_channel)
        artist_clean == clean(lower(artist))
        track_clean == clean(lower(track_name))
        track_clean_no_feat == no_feat(track_clean)
        artist_words == LongWords(artist_clean)
        track_words == LongWords(track_clean_no_feat)
        artist_matches ==
            Cardinality({i \in 1..Len(artist_words) :
                            \/ InText(video_title_clean, artist_words[i])
                            \/ InText(video_channel_lower, artist_words[i])})
        track_matches ==
            Cardinality({i \in 1..Len(track_words) :
                            InText(video_title_clean, track_words[i])})
    IN \/ artist_matches >= 1 /\ track_matches >= 1
       \/ track_matches >= 1
       \/ /\ video_channel_lower # <<>>
          /\ \E i \in 1..Len(artist_words) :
                InText(video_channel_lower, artist_words[i])
       \/ /\ Len(track_clean_no_feat) > 3
          /\ InText(video_title_clean, track_clean_no_feat)
       \/ artist_matches >= Max(1, Len(artist_words) \div 2)

\* set(...): the different values of the list.
AsSet(words) == {words[i] : i \in 1..Len(words)}

\* fetch_youtube_links_2.py, validate_match.  int(n * 0.4) is (4 * n) \div 10.
validate_match_2(artist, track_name, video_title, video_channel) ==
    LET video_title_clean == normalize(video_title)
        video_channel_clean == normalize(video_channel)
        artist_clean == normalize(artist)
        track_clean == no_feat(normalize(track_name))
        artist_words == AsSet(LongWords(artist_clean))
        track_words == AsSet(LongWords(track_clean))
        video_text == video_title_clean \o <<" ">> \o video_channel_clean
        artist_hits == Cardinality({w \in artist_words : InText(video_text, w)})
        track_hits == Cardinality({w \in track_words : InText(video_text, w)})
    IN \/ track_hits >= 1 /\ artist_hits >= 1
       \/ track_hits >= Max(1, (4 * Cardinality(track_words)) \div 10)
       \/ artist_hits >= Max(1, (4 * Cardinality(artist_words)) \div 10)
       \/ \E w \in artist_words : InText(video_channel_clean, w)
       \/ InText(video_title_clean, track_clean)

\* The texts that the arguments of the calls are made of.
Words ==
    [hello |-> <<"H", "e", "l", "l", "o">>,
     adele |-> <<"A", "d", "e", "l", "e">>,
     karaoke |-> <<"K", "a", "r", "a", "o", "k", "e">>,
     song |-> <<"S", "o", "n", "g">>,
     feat |-> <<"f", "e", "a", "t", ".">>,
     zoe_k |-> <<"Z", "o", "e-acute", " ", "K">>,
     adele_vevo |-> <<"A", "d", "e", "l", "e", "V", "E", "V", "O">>,
     zoes_music |-> <<"Z", "o", "e", "apostrophe", "s", " ", "M", "u", "s", "i", "c">>]

\* The texts of the given numbers of words, of the given words.
Phrases(words, lengths) ==
    {join(s) : s \in UNION {[1..n -> words] : n \in lengths}}

\* Track names are not empty (pass 1 passes over a track without a name).
\* Those of many words have words that no other text has: t1, t2, ...
TrackNames ==
    Phrases({Words.hello, Words.karaoke, Words.feat}, 1..MaxTrackWords)
        \cup {join(<<Words.hello>> \o [i \in 1..n |-> <<"t", ToString(i)>>]) :
                 n \in 1..MaxFillers}

\* search_youtube is about to call validate_match for an entry: the variant,
\* the artist and the track name of the search, the title of the entry
\* (video.get('title', '') or '') and its channel (video.get('uploader', '')
\* or video.get('channel', '') or '').
MatchInit ==
    /\ NoRun
    /\ NoCall
    /\ NoScrape
    /\ NoKey
    /\ conf = <<>>
    /\ ids = <<>>
    /\ match \in [variant : {1, 2},
                  artist : {Words.adele, Words.zoe_k},
                  track_name : TrackNames,
                  video_title :
                      Phrases({Words.hello, Words.karaoke, Words.adele,
                               Words.song}, 0..MaxTitleWords),
                  video_channel : {<<>>, Words.adele_vevo, Words.zoes_music},
                  verdict : {None},
                  pc : {"called"}]

\* validate_match returns.
Validate ==
    /\ match.pc = "called"
    /\ match' =
          [match EXCEPT
              !.verdict =
                  Some(IF match.variant = 1
                       THEN validate_match(match.artist, match.track_name,
                                           match.video_title, match.video_channel)
                       ELSE validate_match_2(match.artist, match.track_name,
                                             match.video_title, match.video_channel)),
              !.pc = "validated"]
    /\ UNCHANGED <<mainvars, callvars, scrapevars, keyvars, conf, ids>>

MatchNext == Validate

MatchSpec == MatchInit /\ [][MatchNext]_vars

\* ------------------------------------------------------------------------
\* The artist-ID fetcher: validate_discography_match and
\* calculate_confidence for one candidate.  The numbers are exact fractions,
\* a numerator over a positive denominator; the similarities of the titles
\* are inputs: the name similarity as a multiple of 1/SimSteps, and for the
\* discography the number of known albums (of the first 20 known tracks)
\* for which the loops at 174-186 find an upload similar enough.
\* ------------------------------------------------------------------------
Frac(n, d) == [num |-> n, den |-> d]

FracLeq(p, q) == p.num * q.den <= q.num * p.den

FracAdd(p, q) == Frac(p.num * q.den + q.num * p.den, p.den * q.den)

FracMin(p, q) == IF FracLeq(p, q) THEN p ELSE q

\* round(x, 1), in tenths: the nearest tenth, and of two tenths that are
\* equally near the even one.
Round1(x) ==
    LET n == 10 * x.num
        floor == n \div x.den
        twice == 2 * (n % x.den)
    IN IF twice < x.den THEN floor
       ELSE IF twice > x.den THEN floor + 1
            ELSE IF floor % 2 = 0 THEN floor ELSE floor + 1

\* match_percentage = (total_matched / total_known) * 100, with
\* total_known = len(known_albums) + min(len(known_tracks), 10) * 0.3 and
\* total_matched = matched_albums + matched_tracks * 0.3, both in tenths.
match_percentage(n, m) ==
    Frac(100 * (10 * m.albums + 3 * m.tracks),
         10 * n.albums + 3 * Min(n.tracks, 10))

\* A percentage that nothing caps.
validate_discography_uncapped(n, m) ==
    IF n.albums = 0 /\ n.tracks = 0 THEN <<Frac(0, 1), 0>>
    ELSE <<match_percentage(n, m), m.albums + m.tracks>>

\* validate_discography_match: (match_percentage, num_matches).
validate_discography_match(n, m) ==
    IF n.albums = 0 /\ n.tracks = 0 THEN <<Frac(0, 1), 0>>
    ELSE <<FracMin(Frac(100, 1), match_percentage(n, m)), m.albums + m.tracks>>

\* calculate_confidence, the total before it is rounded.
ConfidenceTotal(sim, discography_score, num_matches) ==
    LET name_sim == Frac(sim, SimSteps)
        name_score == Frac(60 * sim, SimSteps)
        disco_score == Frac(40 * discography_score.num,
                            100 * discography_score.den)
        total == FracAdd(name_score, disco_score)
    IN IF FracLeq(Frac(95, 100), name_sim) /\ num_matches >= 2
       THEN FracMin(Frac(100, 1), FracAdd(total, Frac(15, 1)))
       ELSE IF FracLeq(Frac(90, 100), name_sim) /\ num_matches >= 3
            THEN FracMin(Frac(100, 1), FracAdd(total, Frac(10, 1)))
            ELSE total

\* calculate_confidence: the dict it returns, as far as main() decides by
\* it: the total, in tenths.
calculate_confidence(sim, discography_score, num_matches) ==
    [total |-> Round1(ConfidenceTotal(sim, discography_score, num_matches))]

\* process_artist has the uploads of a candidate: the name similarity, how
\* many albums and tracks the discography has, and how many of the known
\* albums and of the first 20 known tracks have a similar upload.
ConfInit ==
    /\ NoRun
    /\ NoCall
    /\ NoScrape
    /\ NoKey
    /\ match = <<>>
    /\ ids = <<>>
    /\ conf \in {c \in [sim : 0..SimSteps,
                        known : [albums : 0..MaxKnownAlbums,
                                 tracks : 0..MaxKnownTracks],
                        similar : [albums : 0..MaxKnownAlbums,
                                   tracks : 0..Min(MaxKnownTracks, 20)],
                        disco : {None},
                        confidence : {None},
                        pc : {"uploads"}] :
                    /\ c.similar.albums <= c.known.albums
                    /\ c.similar.tracks <= c.known.tracks}

\* process_artist, 253-257.
ValidateDiscography ==
    /\ conf.pc = "uploads"
    /\ conf' = [conf EXCEPT
                   !.disco = validate_discography_match(conf.known, conf.similar),
                   !.pc = "validated"]
    /\ UNCHANGED <<mainvars, callvars, scrapevars, keyvars, match, ids>>

\* process_artist, 260.
ScoreCandidate ==
    /\ conf.pc = "validated"
    /\ conf' = [conf EXCEPT
                   !.confidence =
                       Some(calculate_confidence(conf.sim, conf.disco[1],
                                                 conf.disco[2])),
                   !.pc = "scored"]
    /\ UNCHANGED <<mainvars, callvars, scrapevars, keyvars, match, ids>>

ConfNext ==
    \/ ValidateDiscography
    \/ ScoreCandidate

ConfSpec == ConfInit /\ [][ConfNext]_vars

\* ------------------------------------------------------------------------
\* The artist-ID fetcher: main().  The artists are numbered in the order of
\* artist_discography; what the searches and the uploads give for an artist
\* is an input: its candidates, each with uploads or without, and with the
\* total that calculate_confidence gives it, in tenths.
\* ------------------------------------------------------------------------
\* search_artist_ytmusic: no channel id is twice among the candidates.
CandidateLists ==
    {c \in UNION {[1..n -> [channelId : {"UC1", "UC2"}, uploads : BOOLEAN,
                             total : {0, 699, 700, 1000}]] :
                     n \in 0..MaxCandidates} :
        \A i, j \in 1..Len(c) : c[i].channelId = c[j].channelId => i = j}

\* process_artist, the loop over the candidates.
RECURSIVE BestOf(_, _, _)
BestOf(candidates, best_confidence, best_candidate) ==
    IF candidates = <<>> THEN best_candidate
    ELSE LET candidate == Head(candidates)
         IN IF ~candidate.uploads
            THEN BestOf(Tail(candidates), best_confidence, best_candidate)
            ELSE IF candidate.total > best_confidence
                 THEN BestOf(Tail(candidates), candidate.total,
                             Some([channelId |-> candidate.channelId,
                                   total |-> candidate.total]))
                 ELSE BestOf(Tail(candidates), best_confidence, best_candidate)

process_artist(candidates) ==
    IF candidates = <<>> THEN None ELSE BestOf(candidates, 0, None)

\* A test that every candidate passes.
VerifiedAny(res) == res # None

\* if result and result['confidence']['total'] >= 70
Verified(res) == res # None /\ res[1].total >= 700

\* main() before its loop, with the artists of the metadata.
IdsInit ==
    /\ NoRun
    /\ NoCall
    /\ NoScrape
    /\ NoKey
    /\ match = <<>>
    /\ conf = <<>>
    /\ ids \in [n_artists : 0..MaxArtists,
                returned : {<<>>},
                found_count : {0},
                skipped_count : {0},
                results_simple : {<<>>},
                results_detailed : {<<>>},
                output_simple : {None},
                output_detailed : {None},
                pc : {"loop"}]

\* One pass of the loop at 292-326.
ProcessArtist ==
    /\ ids.pc = "loop"
    /\ Len(ids.returned) < ids.n_artists
    /\ \E candidates \in CandidateLists :
          LET res == process_artist(candidates)
              artist_name == Len(ids.returned) + 1
          IN ids' =
                IF Verified(res)
                THEN [ids EXCEPT
                         !.returned = Append(@, res),
                         !.found_count = @ + 1,
                         !.results_simple =
                             Append(@, [id |-> res[1].channelId,
                                        name |-> artist_name]),
                         !.results_detailed =
                             Append(@, [id |-> res[1].channelId,
                                        name |-> artist_name,
                                        confidence |-> res[1].total])]
                ELSE [ids EXCEPT
                         !.returned = Append(@, res),
                         !.skipped_count = @ + 1]
    /\ UNCHANGED <<mainvars, callvars, scrapevars, keyvars, match, conf>>

\* The summary after the loop; the success rate divides by the number of
\* artists, and with no artist the run ends there with a ZeroDivisionError.
Summary ==
    /\ ids.pc = "loop"
    /\ Len(ids.returned) = ids.n_artists
    /\ ids' = [ids EXCEPT !.pc = IF ids.n_artists = 0 THEN "failed"
                                 ELSE "save_simple"]
    /\ UNCHANGED <<mainvars, callvars, scrapevars, keyvars, match, conf>>

\* json.dump({'artists': results_simple}, f)
SaveSimple ==
    /\ ids.pc = "save_simple"
    /\ ids' = [ids EXCEPT !.output_simple = Some(ids.results_simple),
                          !.pc = "save_detailed"]
    /\ UNCHANGED <<mainvars, callvars, scrapevars, keyvars, match, conf>>

\* json.dump(results_detailed, f)
SaveDetailed ==
    /\ ids.pc = "save_detailed"
    /\ ids' = [ids EXCEPT !.output_detailed = Some(ids.results_detailed),
                          !.pc = "done"]
    /\ UNCHANGED <<mainvars, callvars, scrapevars, keyvars, match, conf>>

IdsNext ==
    \/ ProcessArtist
    \/ Summary
    \/ SaveSimple
    \/ SaveDetailed

IdsSpec == IdsInit /\ [][IdsNext]_vars

\* ------------------------------------------------------------------------
\* Properties
\* ------------------------------------------------------------------------
HasNull(store) == \E i \in 1..Len(store) : IsNull(store[i])

HasResolved(store) == \E i \in 1..Len(store) : IsResolved(store[i])

\* Every resolved entry of store a is in store b with the same record.
ResolvedIn(a, b) ==
    \A i \in 1..Len(a) :
        IsResolved(a[i]) => Has(b, a[i].key) /\ Get(b, a[i].key) = a[i].val

\* The positions in searches of the searches of pass p.
PassSearches(p) == {i \in 1..Len(searches) : searches[i].pass = p}

\* The keys of the retry-pass searches, in order (they follow those of pass 1).
RetryKeys ==
    [i \in 1..Cardinality(PassSearches(2)) |->
        searches[Cardinality(PassSearches(1)) + i].key]

Searched(k) == \E i \in 1..Len(searches) : searches[i].key = k

\* The domain keys that the loaded store did not hold.
UnseenAtStart == {k \in DomainKeys(metadata) : ~Has(loaded, k)}

\* The store holds every key of the domain and at least total_tracks entries.
CoversDomain(store) ==
    /\ DomainKeys(metadata) \subseteq KeysOf(store)
    /\ Len(store) >= TotalTracks(metadata)

InRetryPass == pc = "pass2" \/ (pc \in {"save", "dump"} /\ ret = "pass2")

RetryBudgetM == Min(MAX_TRACKS_PER_RUN, MAX_NULL_RETRIES_PER_RUN)

\* The null keys that the retry pass had no budget for.
Deferred == {null_keys[j] : j \in (to_retry + 1)..Len(null_keys)}

BudgetShort == 0 < to_retry /\ to_retry < Len(null_keys)

AllKeys == UNION {DomainKeys(md) : md \in Documents}

ResolvedKeptStep ==
    (pc \notin Stopped /\ pc' # "killed") =>
        /\ ResolvedIn(youtube_links, youtube_links')
        /\ (disk' # disk /\ disk'.kind = "complete") =>
               ResolvedIn(youtube_links, disk'.store)

LastSaveOnInterruptStep ==
    (pc \notin Stopped /\ pc' = "killed" /\ processed > 0) =>
        disk' = Complete(youtube_links)

\* C1 (purge invariant): when main() has returned, through the cap branch or
\* through its end, the store file holds no key mapped to null, whatever the
\* store file held when the run started.
PurgeInvariant == pc = "done" => ~(disk.kind = "complete" /\ HasNull(disk.store))

\* A run that loaded a store with null entries, purged, and returned.
PurgeWitness ==
    /\ pc = "done"
    /\ HasNull(loaded)
    /\ removed > 0
    /\ disk = Complete(youtube_links)

\* C2 (confirmed results are kept): a step of a run (pass 1, the retry pass,
\* the purge, a save) never changes or removes a resolved entry of the
\* in-memory store, and a save that completes writes every resolved entry.
ResolvedNeverLost == [][ResolvedKeptStep]_vars

\* A run that loaded a resolved entry, went through pass 1, the retry pass
\* and the purge, and whose last save wrote the loaded entries.
ResolvedKeptWitness ==
    /\ pc = "done"
    /\ HasResolved(loaded)
    /\ PassSearches(1) # {}
    /\ PassSearches(2) # {}
    /\ removed > 0
    /\ disk.kind = "complete"
    /\ ResolvedIn(loaded, disk.store)

\* C3 (atomic save): after an interruption, also one that comes during a
\* save, the store file is a complete store (the previous or the new one),
\* never a partial write.
AtomicSave == pc = "killed" => disk.kind # "partial"

\* C4 (cancellation): when a run that has searched is interrupted, the
\* process leaves the store it had accumulated in memory on disk.
LastSaveOnInterrupt == [][LastSaveOnInterruptStep]_vars

\* C5 (cap enforcement): a run makes at most MAX_TRACKS_PER_RUN searches, both
\* passes together; and a run that started with more unseen keys in the
\* domain than the cap has, when it returns, made exactly MAX_TRACKS_PER_RUN
\* searches, all of pass 1, has taken the cap branch with a key left
\* unenumerated, and has not entered the retry pass.
CapEnforced ==
    /\ Len(searches) <= MAX_TRACKS_PER_RUN
    /\ (pc = "done" /\ Cardinality(UnseenAtStart) > MAX_TRACKS_PER_RUN) =>
           /\ Len(searches) = MAX_TRACKS_PER_RUN
           /\ PassSearches(2) = {}
           /\ capped
           /\ idx <= Len(WorkItems(metadata))
           /\ ~Searched(ItemKey(WorkItems(metadata)[idx]))
           /\ to_retry = 0

\* A run from the empty store over a domain larger than the cap, returned.
CapWitness ==
    /\ pc = "done"
    /\ loaded = <<>>
    /\ Cardinality(DomainKeys(metadata)) > MAX_TRACKS_PER_RUN
    /\ Len(searches) = MAX_TRACKS_PER_RUN

\* C6 (retry eligibility): while the retry pass is being executed (its loop,
\* and the batch saves inside it) the store has at least total_tracks
\* entries.
RetryEligibility == InRetryPass => Len(youtube_links) >= total_tracks

\* A retry search in a run that also added new keys in pass 1.
RetryEligibilityWitness ==
    /\ pc = "pass2"
    /\ PassSearches(2) # {}
    /\ PassSearches(1) # {}

\* C7 (second pass after full enumeration): when pass 1 has gone through the
\* whole document without reaching the cap and main() arrives at the purge
\* with null keys and with budget left, it has entered the retry pass.
SecondPassEntered ==
    (pc = "cleanup" /\ null_keys # <<>> /\ processed < MAX_TRACKS_PER_RUN) =>
        to_retry > 0

DeferredRemain ==
    (pc = "done" /\ BudgetShort) =>
        \A k \in Deferred : Has(youtube_links, k) /\ Get(youtube_links, k) = None

\* C9 (deferred retries), as the code has it: the null keys that the retry
\* pass had no budget for have not been searched by it and are still null in
\* the in-memory store when the retry pass is over; the purge then deletes
\* them, so that they are in neither the in-memory store nor the store file
\* when the run has returned.
DeferredPurged ==
    /\ (pc = "cleanup" /\ BudgetShort) =>
           \A k \in Deferred :
               /\ Has(youtube_links, k) /\ Get(youtube_links, k) = None
               /\ \A i \in PassSearches(2) : searches[i].key # k
    /\ (pc = "done" /\ BudgetShort) =>
           /\ disk.kind = "complete"
           /\ \A k \in Deferred : ~Has(youtube_links, k) /\ ~Has(disk.store, k)

\* A run whose retry pass had budget for fewer keys than were null, returned.
DeferredWitness ==
    /\ pc = "done"
    /\ BudgetShort
    /\ retried = to_retry
    /\ removed >= Len(null_keys) - to_retry

\* C10 (progress across invocations): over a domain larger than the cap,
\* invocations repeated without end eventually search every key of the
\* domain, whatever the searches return.
Progress ==
    \A k \in AllKeys :
        (Cardinality(DomainKeys(metadata)) > MAX_TRACKS_PER_RUN
            /\ k \in DomainKeys(metadata)) => <>Searched(k)

\* The store holds a resolved record for every key of the domain.
FullyResolved(store) ==
    \A k \in DomainKeys(metadata) :
        \E i \in 1..Len(store) : store[i].key = k /\ IsResolved(store[i])

\* C11 (idempotence): a run that loaded a store with a resolved record for
\* every key of the domain makes no search, never enters a save (so the store
\* file is not written), and keeps the in-memory store and the store file
\* equal to what was loaded.
Idempotence ==
    (pc \notin {"idle", "killed"} /\ FullyResolved(loaded)) =>
        /\ searches = <<>>
        /\ pc \notin {"save", "dump"}
        /\ youtube_links = loaded
        /\ Load(disk) = loaded

\* A run over a domain of at least two keys, all resolved in the loaded
\* store, that has returned.
IdempotenceWitness ==
    /\ pc = "done"
    /\ Cardinality(DomainKeys(metadata)) >= 2
    /\ FullyResolved(loaded)
    /\ disk = Complete(loaded)

LoadTolerantStep ==
    (pc \in Stopped /\ input = "ok" /\ disk.kind \in {"absent", "partial"}) =>
        /\ pc' = "pass1"
        /\ exit_code' = None
        /\ youtube_links' = <<>>

\* C22 (load tolerance): at the start of a run a missing store file and a
\* store file that does not parse both give the empty store, and the run
\* goes on to pass 1; the load lets no exception out of main().
LoadTolerance == [][LoadTolerantStep]_vars

\* A run that found a store file that does not parse and has searched a key.
LoadToleranceWitness ==
    /\ disk = Partial
    /\ pc = "pass1"
    /\ loaded = <<>>
    /\ Len(searches) = 1

SetupFailureStep ==
    /\ (pc \in Stopped /\ input # "ok") =>
          /\ pc' = "failed"
          /\ exit_code' # None /\ exit_code' # <<0>>
          /\ searches' = <<>>
          /\ disk' = disk
    /\ pc' = "done" => exit_code' = <<0>>

\* C23 (fatal setup failure): without a metadata.json that parses the run
\* ends with a non-zero exit status, has made no search and leaves the store
\* file as it was; a run that returns, at its end or through the cap branch,
\* ends with exit status 0.
FatalSetupFailure == [][SetupFailureStep]_vars

\* metadata.json does not parse and the run has ended.
FatalSetupWitness ==
    /\ input = "unparsable"
    /\ pc = "failed"
    /\ exit_code = <<1>>

SearchedKeys == {searches[i].key : i \in 1..Len(searches)}

\* The keys that the run loaded with a record or found a video id for.
ResolvedKeys ==
    {k \in KeysOf(loaded) : Get(loaded, k) # None}
    \cup {searches[i].key : i \in {j \in 1..Len(searches) : searches[j].found}}

\* The purge of the run has been made.
Purged == pc = "done" \/ (pc \in {"save", "dump"} /\ ret = "done")

\* C26 as stated (attempted-only keys): at every point of a run the keys of
\* the in-memory store are exactly the keys loaded at start plus the keys
\* searched so far in this run.
KeysLoadedPlusSearched ==
    pc \notin Stopped => KeysOf(youtube_links) = KeysOf(loaded) \cup SearchedKeys

\* C26 (attempted-only keys, up to the purge): a key that is in the
\* in-memory store was loaded at start or has been searched in this run;
\* until the purge the keys of the store are exactly the loaded keys plus
\* the searched keys, and from the purge on they are those of these keys
\* that were loaded with a record or that a search has found a video for.
AttemptedOnlyKeys ==
    pc \notin {"idle", "killed", "failed"} =>
        KeysOf(youtube_links) =
            IF Purged THEN ResolvedKeys ELSE KeysOf(loaded) \cup SearchedKeys

\* A run that loaded a key, searched two more, one of them without result,
\* and has purged.
AttemptedOnlyWitness ==
    /\ pc = "done"
    /\ loaded # <<>>
    /\ Len(searches) >= 2
    /\ removed > 0
    /\ KeysOf(youtube_links) # KeysOf(loaded) \cup SearchedKeys
    /\ KeysOf(youtube_links) # KeysOf(loaded)

\* C27 (at most one retry per unresolved key): in a run no key is searched
\* twice in pass 1 and none twice in the null-retry pass; pass 1 searches no
\* key that the loaded store held; and when the run has returned, a key that
\* its retry did not resolve is neither in the in-memory store nor in the
\* store file.
OneRetryPerKey ==
    /\ \A i, j \in 1..Len(searches) :
          (i # j /\ searches[i].key = searches[j].key) =>
              searches[i].pass # searches[j].pass
    /\ \A i \in PassSearches(1) : ~Has(loaded, searches[i].key)
    /\ pc = "done" =>
          \A i \in PassSearches(2) :
              ~searches[i].found =>
                  /\ ~Has(youtube_links, searches[i].key)
                  /\ disk.kind = "complete"
                  /\ ~Has(disk.store, searches[i].key)

\* A run that has returned after it searched a key in pass 1 and again in
\* the null-retry pass, both times without result, and retried a loaded null
\* key as well.
OneRetryWitness ==
    /\ pc = "done"
    /\ HasNull(loaded)
    /\ \E i \in PassSearches(1), j \in PassSearches(2) :
          /\ searches[i].key = searches[j].key
          /\ ~searches[j].found
          /\ ~Has(disk.store, searches[j].key)
    /\ \E j \in PassSearches(2) : Has(loaded, searches[j].key)

\* The places of the input list: album a, track t, for the albums with an
\* artist and the tracks with a name.
Places ==
    UNION {{<<a, t>> : t \in {u \in 1..Len(metadata[a].tracks) :
                                  metadata[a].artist # <<>>
                                  /\ metadata[a].tracks[u] # <<>>}}
           : a \in 1..Len(metadata)}

KeyAt(p) == Key(metadata[p[1]].artist, metadata[p[1]].tracks[p[2]])

\* Album order, then track order.
Before(p, q) == p[1] < q[1] \/ (p[1] = q[1] /\ p[2] < q[2])

EarlierSearched(i) == {searches[j].key : j \in 1..(i - 1)}

\* C28 (dispatch order): pass 1 searches in the order of the input list,
\* albums in order and the tracks of an album in order: each of its searches
\* is for the key of a place of the list before which every place has a key
\* that the loaded store held or that was searched earlier, and the earlier
\* searches are for places before it.  It searches no key that the loaded
\* store held, resolved or null; a loaded key that is searched is a null key
\* and is searched in the null-retry pass.
DispatchOrder ==
    /\ \A i \in PassSearches(1) :
          /\ ~Has(loaded, searches[i].key)
          /\ \E q \in Places :
                /\ KeyAt(q) = searches[i].key
                /\ \A p \in Places :
                      Before(p, q) =>
                          KeyAt(p) \in KeysOf(loaded) \cup EarlierSearched(i)
                /\ \A j \in 1..(i - 1) :
                      \E p \in Places : Before(p, q) /\ KeyAt(p) = searches[j].key
    /\ \A i \in 1..Len(searches) :
          Has(loaded, searches[i].key) =>
              searches[i].pass = 2 /\ Get(loaded, searches[i].key) = None

\* A run that loaded a resolved and a null key, passed over both in pass 1,
\* searched the two keys after them, and retried the loaded null key.
DispatchOrderWitness ==
    /\ HasNull(loaded)
    /\ HasResolved(loaded)
    /\ Cardinality(PassSearches(1)) = 2
    /\ \E p, q \in Places :
          /\ Before(p, q)
          /\ Has(loaded, KeyAt(p))
          /\ searches[1].key = KeyAt(q)
    /\ \E j \in PassSearches(2) : Has(loaded, searches[j].key)

\* The store that the last save of the run wrote, or the loaded store if
\* the run has not saved yet.
LastSaved == IF disk.kind = "complete" THEN disk.store ELSE loaded

\* The keys whose entry was added (pass 1) or changed from null to a record
\* (null-retry pass) since then.
UnsavedKeys ==
    {k \in KeysOf(youtube_links) :
        ~Has(LastSaved, k) \/ Get(LastSaved, k) # Get(youtube_links, k)}

\* C29 (bounded loss between checkpoints): while a run is under way and is
\* not in the middle of writing the store file, the entries added or fixed
\* since the last save are never more than BATCH_SIZE, in both passes and in
\* both variants, whatever positive value BATCH_SIZE has.
BoundedLoss ==
    (pc \notin Stopped /\ pc # "dump") => Cardinality(UnsavedKeys) <= batch_every

\* ------------------------------------------------------------------------
\* Properties of one call
\* ------------------------------------------------------------------------
IsHttp4xx(outcome) == outcome.kind = "http" /\ outcome.status \in 400..499

IsHttp2xx(outcome) == outcome.kind = "http" /\ outcome.status \in 200..299

\* 5xx, timeout, client error, unexpected exception.
RetryableFailure(outcome) ==
    \/ outcome.kind \in {"timeout", "client", "exception"}
    \/ outcome.kind = "http" /\ outcome.status >= 500

\* A backoff was slept before request number k.
SleptBefore(k) == \E j \in 1..Len(sleeps) : sleeps[j].before = k

\* The statuses that a success or a terminal failure returns.
SingleAttemptStatuses ==
    {<<"success">>, <<"404">>} \cup {<<"error_", "http_", ToString(c)>> : c \in 400..499}

\* The text has 403, 429 or, in any letter case, 'timed out' in it.
RateLimitText(msg) ==
    \E p \in 1..Len(msg) : LowerPart(msg[p]) \in {"403", "429", "timed out"}

\* C14 (terminal failures are not retried): in fetch_collection and in
\* download_album_art a response with a 4xx status (404 included) is the last
\* request of the call: the call has returned with it, no backoff was slept
\* after it, and the attempts that were left stay unused.
TerminalNotRetried ==
    fn \in FetchFunctions =>
        \A i \in 1..Len(requests) :
            IsHttp4xx(requests[i]) =>
                /\ i = Len(requests)
                /\ cpc = "returned"
                /\ ~SleptBefore(i + 1)

\* A call with the largest budget that got a 4xx response to its second
\* request and returned.
TerminalWitness ==
    /\ fn \in FetchFunctions
    /\ max_retries = MaxAttempts
    /\ cpc = "returned"
    /\ Len(requests) = 2
    /\ IsHttp4xx(requests[2])
    /\ Len(sleeps) = 1

\* C15 (attempt budget): a call of fetch_collection, download_album_art or
\* search_youtube never makes more requests than its budget (max_retries,
\* attempts), whatever the requests come back with; and once it has returned
\* it makes no step any more.
AttemptBudget ==
    fn \in Functions =>
        /\ Len(requests) <= max_retries
        /\ cpc = "returned" => ~ENABLED CallNext

\* A call of fetch_collection that used its whole budget on retryable
\* failures and returned.
AttemptBudgetWitness ==
    /\ fn = "fetch_collection"
    /\ max_retries = MaxAttempts
    /\ cpc = "returned"
    /\ Len(requests) = max_retries
    /\ \A i \in 1..Len(requests) : RetryableFailure(requests[i])

\* C16 (exhaustion tagging): when each of the max_retries requests of
\* fetch_collection failed with a retryable failure, the status returned is
\* the classification of the last failure followed by
\* _after_<max_retries>_retries, and it is none of the statuses that a
\* success or a terminal failure returns.
ExhaustionTagged ==
    (/\ fn = "fetch_collection"
     /\ cpc = "returned"
     /\ Len(requests) = max_retries
     /\ \A i \in 1..Len(requests) : RetryableFailure(requests[i])) =>
        /\ result =
              (IF requests = <<>> THEN <<"None">>
               ELSE Classify(requests[Len(requests)]))
              \o <<"_after_", ToString(max_retries), "_retries">>
        /\ result \notin SingleAttemptStatuses

\* An exhausted call whose last failure is classified like a 404 client
\* error.
ExhaustionWitness ==
    /\ fn = "fetch_collection"
    /\ cpc = "returned"
    /\ max_retries = 3
    /\ Len(requests) = 3
    /\ \A i \in 1..Len(requests) : RetryableFailure(requests[i])
    /\ last_error = <<"error_", "http_", "404">>

\* C17 (backoff formula of the link search), as claimed: the delay slept
\* before request k, k counted from 1, is RETRY_BACKOFF_BASE * k seconds.
BackoffBaseTimesK ==
    fn = "search_youtube" =>
        \A j \in 1..Len(sleeps) :
            sleeps[j].delay = RETRY_BACKOFF_BASE * sleeps[j].before * 1000

\* C17 (backoff formula of the link search), as the code has it: the delay
\* slept before request k, k counted from 1 and k > 1, is
\* RETRY_BACKOFF_BASE * (k - 1) seconds.
BackoffBaseTimesFailed ==
    fn = "search_youtube" =>
        \A j \in 1..Len(sleeps) :
            /\ sleeps[j].before > 1
            /\ sleeps[j].delay = RETRY_BACKOFF_BASE * (sleeps[j].before - 1) * 1000

\* A search that slept before its second and before its third request.
BackoffFormulaWitness ==
    /\ fn = "search_youtube"
    /\ SleptBefore(2)
    /\ SleptBefore(3)
    /\ Len(requests) = 3

\* C18 (backoff monotonicity): within one call, of any of the three
\* functions and with any budget, a backoff delay is never shorter than the
\* delays slept before it.
BackoffMonotone ==
    \A i, j \in 1..Len(sleeps) : i < j => sleeps[i].delay <= sleeps[j].delay

\* A call of fetch_collection that slept three times.
BackoffMonotoneWitness ==
    /\ fn = "fetch_collection"
    /\ Len(sleeps) = 3
    /\ sleeps[1].delay < sleeps[3].delay

\* C19 (success classification): in fetch_collection a response with a 2xx
\* status is the last request of the call, which has returned the status
\* 'success'.
SuccessOn2xx ==
    fn = "fetch_collection" =>
        \A i \in 1..Len(requests) :
            IsHttp2xx(requests[i]) =>
                /\ i = Len(requests)
                /\ cpc = "returned"
                /\ result = <<"success">>

\* C20 (rate-limit signals are retryable in the link search): after a
\* DownloadError whose text has 403, 429 or (in any letter case) 'timed out'
\* in it, with an attempt left, search_youtube sleeps a backoff and makes the
\* next request; after a DownloadError without such text it has returned None
\* with that request as its last and without a backoff.
RateLimitRetried ==
    fn = "search_youtube" =>
        \A i \in 1..Len(requests) :
            requests[i].kind = "download_error" =>
                IF RateLimitText(requests[i].msg)
                THEN i < max_retries =>
                        \/ i = Len(requests) /\ cpc = "backoff"
                        \/ /\ SleptBefore(i + 1)
                           /\ i < Len(requests) \/ cpc = "request"
                ELSE /\ i = Len(requests)
                     /\ cpc = "returned"
                     /\ result = None
                     /\ ~SleptBefore(i + 1)

\* A search whose first request met a rate-limit signal, which slept and
\* searched again, and whose second request met another DownloadError and
\* returned with an attempt left.
RateLimitWitness ==
    /\ fn = "search_youtube"
    /\ max_retries >= 3
    /\ cpc = "returned"
    /\ Len(requests) = 2
    /\ requests[1].kind = "download_error"
    /\ RateLimitText(requests[1].msg)
    /\ SleptBefore(2)
    /\ requests[2].kind = "download_error"
    /\ ~RateLimitText(requests[2].msg)

\* C21 (failure absorption): in search_youtube and fetch_collection an
\* exception raised by a request attempt (timeout, client error, yt-dlp
\* error, any other exception) never leaves the function: the call goes on
\* to its next attempt or returns, and what it returns after a raising
\* last attempt is None (search_youtube) or an error status (fetch_collection).
FailureAbsorbed ==
    (fn \in {"search_youtube", "fetch_collection"}
        /\ requests # <<>> /\ Raises(requests[Len(requests)])) =>
        /\ cpc \in {"backoff", "request", "returned"}
        /\ cpc = "returned" =>
              IF fn = "search_youtube" THEN result = None
              ELSE result # <<>> /\ result[1] = "error_"

\* fetch_collection has returned after two attempts, a timeout and then an
\* exception of no named class.
FailureAbsorbedWitness ==
    /\ fn = "fetch_collection"
    /\ cpc = "returned"
    /\ Len(requests) = 2
    /\ requests[1].kind = "timeout"
    /\ requests[2].kind = "exception"
    /\ result[1] = "error_"

\* The attempt ended in a way after which search_youtube tries again: no
\* entries, a transient DownloadError, or an exception of another class.
LeadsToRetry(outcome) ==
    \/ outcome.kind \in {"empty", "exception"}
    \/ outcome.kind = "download_error" /\ Transient(outcome.msg)

\* C36 (widened retry window): in search_youtube called with
\* widen_on_retry=True the first attempt asks for 5 results and every later
\* attempt for NULL_RETRY_RESULTS; an attempt is followed by another one only
\* if it raised an error that is retried or returned no entries; an attempt
\* that returned candidates of which none validated is the last one, and the
\* call returns None.
WidenedRetryWindow ==
    (fn = "search_youtube" /\ widen_on_retry) =>
        /\ Len(results_counts) = Len(requests)
        /\ \A k \in 1..Len(results_counts) :
              results_counts[k] = IF k = 1 THEN 5 ELSE NULL_RETRY_RESULTS
        /\ \A k \in 2..Len(requests) : LeadsToRetry(requests[k - 1])
        /\ \A k \in 1..Len(requests) :
              requests[k].kind = "no_match" =>
                  k = Len(requests) /\ cpc = "returned" /\ result = None

\* A widened call whose first attempt returned no entries and whose second,
\* widened attempt returned candidates of which none validated.
WidenedRetryWitness ==
    /\ fn = "search_youtube"
    /\ widen_on_retry
    /\ cpc = "returned"
    /\ Len(requests) = 2
    /\ requests[1].kind = "empty"
    /\ requests[2].kind = "no_match"
    /\ results_counts = <<5, NULL_RETRY_RESULTS>>

\* ------------------------------------------------------------------------
\* Properties of the collection scraper
\* ------------------------------------------------------------------------
\* The tasks with a request on the network (a collection fetch or an
\* album-art download).
InFlight == {t \in Ids : task[t].pc \in {"request", "art_request"}}

\* The tasks inside `async with semaphore`.
Holders ==
    {t \in Ids : task[t].pc \in {"request", "backoff", "art_request", "art_backoff"}}

\* The task is between the first and the last mutation that it makes under
\* the lock.
Mutating(t) ==
    task[t].pc \in {"append", "count", "save", "saving", "unlock", "art_apply"}

CollectionIds(list) == [i \in 1..Len(list) |-> list[i].collection_id]

\* C12 (bounded concurrency): the requests in flight, collection fetches and
\* album-art downloads together, are never more than the configured
\* concurrency: each belongs to a task that holds the semaphore, and the
\* holders and the semaphore's value add up to the concurrency.
BoundedConcurrency ==
    spc # "none" =>
        /\ Cardinality(InFlight) <= concurrency
        /\ sem >= 0
        /\ sem + Cardinality(Holders) = concurrency

\* With a concurrency of one, an album-art download is in flight and a
\* collection fetch of the same batch waits for the semaphore.
BoundedConcurrencyWitness ==
    /\ concurrency = 1
    /\ batch_size > 1
    /\ \E t, u \in Ids : task[t].pc = "art_request" /\ task[u].pc = "sem"

\* C13 (serialized result application): at most one task is inside the
\* mutations it makes for a completed fetch or a completed download, and it
\* holds the lock; the result list holds the results in the order in which
\* the fetches completed, with at most the result that is being applied
\* missing.
SerializedApplication ==
    spc # "none" =>
        /\ \A t, u \in Ids : Mutating(t) /\ Mutating(u) => t = u
        /\ \A t \in Ids : Mutating(t) => lock = t /\ running = t
        /\ Len(all_metadata) <= Len(completed)
        /\ Len(completed) <= Len(all_metadata) + 1
        /\ CollectionIds(all_metadata) = SubSeq(completed, 1, Len(all_metadata))

\* Two fetches dispatched together, of which the second completed first, and
\* both results applied.
SerializedWitness ==
    /\ concurrency = 2
    /\ spc = "finished"
    /\ Len(all_metadata) = 2
    /\ all_metadata[1].collection_id > all_metadata[2].collection_id
    /\ counters.success + counters.not_found + counters.error = 2

\* The records of the output file as the run found it.
PriorRecords == {PriorFile.store[i] : i \in 1..Len(PriorFile.store)}

InFile(r, file) == \E i \in 1..Len(file.store) : file.store[i] = r

PriorKeptStep ==
    \A r \in PriorRecords : InFile(r, json_file) => InFile(r, json_file')

\* C24 (earlier results are kept): a record that is in the output JSON file
\* when the run starts is still in the file after every save of the run, the
\* timed saves and the final save: no step takes such a record out of the
\* file.
PriorResultsKept == [][PriorKeptStep]_vars

AtomicSaveStep ==
    /\ json_file'.kind # "partial"
    /\ json_file' = json_file \/ json_file' = save_results(all_metadata)

\* C25 (atomic save): save_results writes to the temporary path and renames
\* it over the target, so at every point of the run, and so wherever the run
\* is interrupted, the target is the complete file of before the save or the
\* complete new one, never a truncated one.
AtomicReplace == [][AtomicSaveStep]_vars

\* The run was interrupted while a later save was writing the temporary
\* file; the target holds what the earlier save wrote.
AtomicReplaceWitness ==
    /\ spc = "interrupted"
    /\ json_temp = Partial
    /\ json_file.kind = "complete"
    /\ Len(json_file.store) = 1
    /\ json_file # PriorFile

\* No value is twice in the sequence.
Distinct(seq) == \A i, j \in 1..Len(seq) : seq[i] = seq[j] => i = j

IdSet(list) == {list[i].collection_id : i \in 1..Len(list)}

\* C37 (range coverage): the batches partition [start_id, end_id]: between
\* two batches the result list holds one entry for each id below batch_start
\* and no other, while a batch runs it holds these and entries of ids of the
\* batch only, no id is fetched twice and none has two entries, and when the
\* batch loop is over the list has end_id - start_id + 1 entries with
\* pairwise different collection ids, those of the range.
RangeCoverage ==
    spc \in {"loop", "gather", "final_save", "finished"} =>
        /\ Distinct(completed)
        /\ Distinct(CollectionIds(all_metadata))
        /\ spc = "loop" =>
              IdSet(all_metadata) = start_id..Min(batch_start - 1, end_id)
        /\ spc = "gather" =>
              /\ start_id..(batch_start - 1) \subseteq IdSet(all_metadata)
              /\ IdSet(all_metadata) \subseteq
                    start_id..Min(batch_start + batch_size - 1, end_id)
              /\ \A t \in Ids :
                    task[t].pc = "done" /\ t >= batch_start =>
                        t \in IdSet(all_metadata)
        /\ spc \in {"final_save", "finished"} =>
              /\ Len(all_metadata) = end_id - start_id + 1
              /\ IdSet(all_metadata) = start_id..end_id

\* A run of two batches of one id each is complete.
RangeCoverageWitness ==
    /\ spc = "finished"
    /\ batch_size = 1
    /\ end_id = start_id + 1
    /\ Len(all_metadata) = 2

\* The entries of the result list whose status is 'success'.
SuccessEntries == {all_metadata[i] : i \in {j \in 1..Len(all_metadata) :
                                              all_metadata[j].status = "success"}}

\* The file is complete and holds exactly the successful entries of the
\* result list, by ascending collection id.
HoldsSuccessesInOrder(file) ==
    /\ file.kind = "complete"
    /\ {file.store[i] : i \in 1..Len(file.store)} = SuccessEntries
    /\ \A i, j \in 1..Len(file.store) :
          i < j => file.store[i].collection_id < file.store[j].collection_id

\* C38 (persisted content): a file that save_results has written holds
\* exactly the entries of the result list whose status is 'success', no 404
\* and no error outcome, by ascending collection_id whatever the order in
\* which the fetches completed; after the final save each item whose album
\* art was downloaded carries its album_art_file in the file.
PersistedContent ==
    /\ save_pc = "replace" => HoldsSuccessesInOrder(json_temp)
    /\ spc = "finished" =>
          /\ HoldsSuccessesInOrder(json_file)
          /\ \A t \in Ids :
                task[t].art = "success" =>
                    \E i \in 1..Len(json_file.store) :
                        /\ json_file.store[i].collection_id = t
                        /\ json_file.store[i].album_art_file

\* The fetch of the second id completed first and its album art was
\* downloaded, the fetch of the first id found nothing; the final save wrote
\* the one successful entry, with its album art.
PersistedContentWitness ==
    /\ spc = "finished"
    /\ Len(all_metadata) = 2
    /\ all_metadata[1].collection_id = 2
    /\ all_metadata[1].album_art_file
    /\ all_metadata[2].status = "404"
    /\ Len(json_file.store) = 1

\* Two successful fetches that completed in descending order of their ids
\* are in the file in ascending order.
PersistedOrderWitness ==
    /\ spc = "finished"
    /\ Len(json_file.store) = 2
    /\ all_metadata[1].collection_id > all_metadata[2].collection_id

\* C39 (tally): whenever the result lock is free, the three counters add up
\* to the number of entries of the result list, however the completions of
\* the concurrent fetches interleave.
TallyInvariant ==
    (spc # "none" /\ lock = 0) =>
        counters.success + counters.not_found + counters.error
            = Len(all_metadata)

\* The lock is free after one 404 was applied, while another fetch of the
\* batch is still on the network.
TallyWitness ==
    /\ lock = 0
    /\ Len(all_metadata) = 1
    /\ counters.not_found = 1
    /\ \E t \in Ids : task[t].pc = "request"

\* The tasks that wait for the semaphore, and those that wait for the lock.
SemWaiters == {t \in Ids : task[t].pc \in {"sem", "art_sem"}}

LockWaiters == {t \in Ids : task[t].pc \in {"lock", "art_lock"}}

\* No task holds the semaphore and the lock together, none waits for the
\* semaphore while it holds the lock, none waits for the lock while it holds
\* the semaphore.
NoNestedHold ==
    \A t \in Ids :
        /\ ~(t \in Holders /\ lock = t)
        /\ ~(t \in SemWaiters /\ lock = t)
        /\ ~(t \in LockWaiters /\ t \in Holders)

\* The run is over: the final save is done, every task of the range has
\* ended and the semaphore is back at its initial value.
RunComplete ==
    /\ spc = "finished"
    /\ \A t \in start_id..end_id : task[t].pc = "done"
    /\ sem = concurrency
    /\ lock = 0

\* C40 (deadlock freedom and termination): no task ever holds the semaphore
\* and the lock at the same time or waits for one while it holds the other,
\* and when every network request comes back, every task gives the semaphore
\* back, every batch finishes and the run reaches the end of its final save,
\* for every concurrency from 1 on and with the album-art download on or off.
ScrapeTerminates == []NoNestedHold /\ <>RunComplete

\* A run with a concurrency of one and the album-art download on, two
\* fetches in one batch and one download, is complete.
ScrapeTerminatesWitness ==
    /\ RunComplete
    /\ concurrency = 1
    /\ download_art
    /\ batch_size = 2
    /\ Len(all_metadata) = 2
    /\ download_counters.success + download_counters.error >= 1

\* ------------------------------------------------------------------------
\* Properties of validate_match
\* ------------------------------------------------------------------------
\* What the variant makes of a text before it compares.
Normalized(text) ==
    IF match.variant = 1 THEN clean(lower(text)) ELSE normalize(text)

\* The tokens of the expected track: the words of more than one character
\* of the track name without its feature credit.
TrackTokens == AsSet(LongWords(no_feat(Normalized(match.track_name))))

\* karaoke, cover, remix, medley
Markers ==
    {<<"k", "a", "r", "a", "o", "k", "e">>, <<"c", "o", "v", "e", "r">>,
     <<"r", "e", "m", "i", "x">>, <<"m", "e", "d", "l", "e", "y">>}

\* C31 (disallowed markers): a candidate whose title has a disallowed marker
\* that the expected track text does not have is rejected.
MarkersRejected ==
    (/\ match.pc = "validated"
     /\ \E m \in Markers :
           /\ m \in AsSet(split(Normalized(match.video_title)))
           /\ m \notin AsSet(split(Normalized(match.track_name))))
        => match.verdict = Some(FALSE)

\* C32 (track evidence alone suffices): in both variants a candidate whose
\* normalized title contains at least one token of the expected track is
\* accepted, whatever the artist, the channel and the number of tokens.
TrackEvidenceSuffices ==
    (/\ match.pc = "validated"
     /\ \E w \in TrackTokens : InText(Normalized(match.video_title), w))
        => match.verdict = Some(TRUE)

\* The words of a text, of any length.
WordsOf(text) == AsSet(split(Normalized(text)))

\* C33 (unrelated candidates are rejected): in both variants a candidate
\* whose normalized title and channel contain no word of the expected
\* artist and no word of the expected track name is rejected, also when the
\* track name starts with a feature word.
UnrelatedRejected ==
    (/\ match.pc = "validated"
     /\ \A w \in WordsOf(match.artist) \cup WordsOf(match.track_name) :
           /\ ~InText(Normalized(match.video_title), w)
           /\ ~InText(Normalized(match.video_channel), w))
        => match.verdict = Some(FALSE)

\* ------------------------------------------------------------------------
\* Properties of the artist-ID fetcher
\* ------------------------------------------------------------------------
\* The artist is in the list.
Listed(artist_no, list) == \E j \in 1..Len(list) : list[j].name = artist_no

\* process_artist gave a best candidate for the artist, with a total
\* confidence of 70 or more.
Confident(artist_no) ==
    /\ ids.returned[artist_no] # None
    /\ ids.returned[artist_no][1].total >= 700

\* C34 (confidence threshold): an artist is in the simple and in the
\* detailed results, and in the files written from them, if and only if
\* process_artist returned a best candidate with a total confidence of 70 or
\* more; every other artist is counted as skipped, and found_count and
\* skipped_count add up to the number of artists processed.
ConfidenceThreshold ==
    /\ ids.found_count + ids.skipped_count = Len(ids.returned)
    /\ ids.found_count = Len(ids.results_simple)
    /\ ids.found_count = Len(ids.results_detailed)
    /\ \A a \in 1..Len(ids.returned) :
          /\ Listed(a, ids.results_simple) <=> Confident(a)
          /\ Listed(a, ids.results_detailed) <=> Confident(a)
    /\ ids.output_simple # None => ids.output_simple[1] = ids.results_simple
    /\ ids.output_detailed # None =>
          ids.output_detailed[1] = ids.results_detailed
    /\ ids.pc = "done" =>
          \A a \in 1..ids.n_artists :
              /\ Listed(a, ids.output_simple[1]) <=> Confident(a)
              /\ Listed(a, ids.output_detailed[1]) <=> Confident(a)

\* Two artists: a best candidate with a total of 69.9 for the first, which
\* is skipped, one of 70.0 for the second, which is written to both files.
ConfidenceThresholdWitness ==
    /\ ids.pc = "done"
    /\ ids.n_artists = 2
    /\ ids.returned[1] # None /\ ids.returned[1][1].total = 699
    /\ ids.returned[2] # None /\ ids.returned[2][1].total = 700
    /\ ids.found_count = 1
    /\ ids.skipped_count = 1
    /\ Len(ids.output_detailed[1]) = 1

\* C35 (confidence bound): the percentage that validate_discography_match
\* returns is between 0 and 100, and the total of calculate_confidence,
\* before and after it is rounded and with either bonus, is between 0 and
\* 100, for every name similarity, discography and number of matches.
ConfidenceBound ==
    /\ conf.pc \in {"validated", "scored"} =>
          /\ FracLeq(Frac(0, 1), conf.disco[1])
          /\ FracLeq(conf.disco[1], Frac(100, 1))
    /\ conf.pc = "scored" =>
          /\ conf.confidence[1].total \in 0..1000
          /\ FracLeq(Frac(0, 1),
                     ConfidenceTotal(conf.sim, conf.disco[1], conf.disco[2]))
          /\ FracLeq(ConfidenceTotal(conf.sim, conf.disco[1], conf.disco[2]),
                     Frac(100, 1))

\* The same name, eleven known tracks that all have a similar upload (3.3
\* matched of 3.0 known), and the bonus of 15: the total is 100.
ConfidenceBoundWitness ==
    /\ conf.pc = "scored"
    /\ conf.sim = SimSteps
    /\ conf.known = [albums |-> 0, tracks |-> 11]
    /\ conf.similar = [albums |-> 0, tracks |-> 11]
    /\ conf.disco[2] >= 2
    /\ conf.confidence[1].total = 1000

\* ------------------------------------------------------------------------
\* Properties of the key
\* ------------------------------------------------------------------------
\* C30 (key uniqueness and round trip): two different pairs of artist and
\* track name never have the same key, and the split of a key at its first
\* '|' gives back the artist and the track name it was built from.
KeyUniqueRoundTrip ==
    /\ (kpc \in {"keyed", "split"} /\ key_out[1] = key_out[2]) => key_in = key_other
    /\ kpc = "split" => key_split = key_in

====
